---- MODULE Spec2Model ----
(***************************************************************************)
(* Session lifecycle of the Salesforce client: SalesforceClient (connect,  *)
(* makeRequest, tryTokenRefresh) and SalesforcePasswordAuth (authenticate, *)
(* refreshAccessToken), with the remote service as a nondeterministic      *)
(* environment answering each downstream request.  Further specifications  *)
(* exercise the auth object on its own (SpecAuth), queryAll (SpecQuery),   *)
(* the metadata cache of getObjectFields (SpecCache), two overlapping      *)
(* getObjectFields calls (SpecRace), the tools of the server (SpecServer,  *)
(* SpecTools), the pass-through operations (SpecPass), two overlapping     *)
(* makeRequest calls (SpecRenew) and the helper functions (SpecUtil).      *)
(*                                                                         *)
(* Strings are sequences of text pieces in which every "/" is a piece of   *)
(* its own; a missing value (undefined or null) is the value Undefined.    *)
(***************************************************************************)
EXTENDS Integers, Sequences, FiniteSets, TLC

VARIABLES config, authClient, lastOp, calls, result, pre,
          args, sobjectsCache, pending, stdio

vars == <<config, authClient, lastOp, calls, result, pre,
          args, sobjectsCache, pending, stdio>>

(* ------------------------------------------------------------------ *)
(* Values                                                              *)
(* ------------------------------------------------------------------ *)

\* Number of distinct access tokens the identity endpoint can issue.
MaxToken == 2

Undefined == <<"undefined">>

\* JavaScript truthiness of an optional string.
Truthy(v) == v # Undefined /\ v # <<>>

Rep(piece, n) == [i \in 1..n |-> piece]

\* The element of a one-element set: { e(x) : x \in {v} } names the value v
\* as x in e, as a const declaration does.
The(S) == CHOOSE x \in S : TRUE

\* The token found in the environment at start-up, and the tokens the
\* identity endpoint issues.
PreToken == <<"env-token">>
ServiceTokens == {Rep("tok", n) : n \in 1..MaxToken}
RefreshTok == <<"refresh">>
PreUrl == <<"https://pre.my.salesforce.com">>
ServiceUrl == <<"https://org.my.salesforce.com">>

API_VERSION == "v58.0"
LOGIN_URL == <<"https://login.salesforce.com">>
SANDBOX_URL == <<"https://test.salesforce.com">>
OAUTH_TOKEN_PATH == <<"/", "services", "/", "oauth2", "/", "token">>

getSalesforceBaseUrl(sandbox) == IF sandbox THEN SANDBOX_URL ELSE LOGIN_URL

getOAuthTokenUrl(sandbox) == getSalesforceBaseUrl(sandbox) \o OAUTH_TOKEN_PATH

\* instanceUrl.replace(/\/$/, ''): drops one trailing slash.
cleanInstanceUrl(instanceUrl) ==
    IF Len(instanceUrl) > 0 /\ instanceUrl[Len(instanceUrl)] = "/"
    THEN SubSeq(instanceUrl, 1, Len(instanceUrl) - 1)
    ELSE instanceUrl

cleanPathAlwaysPrefixed(path) == <<"/">> \o path

\* path.startsWith('/') ? path : `/${path}`
cleanPath(path) ==
    IF Len(path) > 0 /\ path[1] = "/" THEN path ELSE <<"/">> \o path

getApiUrl(instanceUrl, path) ==
    cleanInstanceUrl(instanceUrl)
        \o <<"/", "services", "/", "data", "/", API_VERSION>>
        \o cleanPath(path)

(* ------------------------------------------------------------------ *)
(* The remote service: what a downstream request can be answered with  *)
(* ------------------------------------------------------------------ *)

NoBody == [message |-> Undefined, firstMessage |-> Undefined]

OkResponse ==
    [kind |-> "resolved", status |-> 200, payload |-> <<"payload">>, body |-> NoBody]
Http401 ==
    [kind |-> "httpError", status |-> 401, payload |-> Undefined,
     body |-> [message |-> Undefined, firstMessage |-> <<"Session expired or invalid">>]]
Http500 ==
    [kind |-> "httpError", status |-> 500, payload |-> Undefined, body |-> NoBody]
NoResponse ==
    [kind |-> "noResponse", status |-> 0, payload |-> Undefined, body |-> NoBody]

\* Answers of the data endpoint to one request.
DataResponses == {OkResponse, Http401, Http500, NoResponse}

Granted(t, u, r) ==
    [kind |-> "resolved", status |-> 200,
     access_token |-> t, instance_url |-> u, refresh_token |-> r]
Rejected ==
    [kind |-> "httpError", status |-> 400,
     access_token |-> Undefined, instance_url |-> Undefined, refresh_token |-> Undefined]
Accepted202 ==
    [kind |-> "resolved", status |-> 202,
     access_token |-> Undefined, instance_url |-> Undefined, refresh_token |-> Undefined]
\* The awaited authenticate call rejects with an unexpected exception
\* instead of returning false: the case the catch of connect() is there for.
Raises ==
    [kind |-> "raises", status |-> 0,
     access_token |-> Undefined, instance_url |-> Undefined, refresh_token |-> Undefined]

\* Answers of the identity endpoint to a password grant request.
ExchangeResponses ==
    {Granted(t, ServiceUrl, r) : t \in ServiceTokens, r \in {Undefined, RefreshTok}}
        \cup {Rejected, Accepted202}

\* Answers of the identity endpoint to a refresh grant request.
RenewResponses ==
    {Granted(t, ServiceUrl, Undefined) : t \in ServiceTokens} \cup {Rejected, Accepted202}

(* ------------------------------------------------------------------ *)
(* SalesforcePasswordAuth                                              *)
(* ------------------------------------------------------------------ *)

\* this.authClient = null
NoAuthClient ==
    [present |-> FALSE, clientId |-> Undefined, clientSecret |-> Undefined,
     accessToken |-> Undefined, instanceUrl |-> Undefined, refreshToken |-> Undefined]

\* new SalesforcePasswordAuth(clientId, clientSecret)
SalesforcePasswordAuth(clientId, clientSecret) ==
    [present |-> TRUE, clientId |-> clientId, clientSecret |-> clientSecret,
     accessToken |-> Undefined, instanceUrl |-> Undefined, refreshToken |-> Undefined]

IdentityCall(kind, sandbox, form, resp) ==
    [kind |-> kind, method |-> "POST", url |-> getOAuthTokenUrl(sandbox),
     bearer |-> Undefined, data |-> form, params |-> Undefined, resp |-> resp]

combinedPasswordBare(password, securityToken) == password

\* securityToken ? `${password}${securityToken}` : password
combinedPassword(password, securityToken) ==
    IF Truthy(securityToken) THEN password \o securityToken ELSE password

authenticateKeepsRefresh(auth, username, password, securityToken, sandbox, resp) ==
    LET form == <<<<"grant_type", <<"password">>>>,
                  <<"client_id", auth.clientId>>,
                  <<"client_secret", auth.clientSecret>>,
                  <<"username", username>>,
                  <<"password", combinedPassword(password, securityToken)>>>>
        call == IdentityCall("exchange", sandbox, form, resp)
    IN  IF resp.kind = "resolved" /\ resp.status = 200
        THEN [ok |-> TRUE,
              auth |-> [auth EXCEPT !.accessToken = resp.access_token,
                                    !.instanceUrl = resp.instance_url],
              calls |-> <<call>>]
        ELSE [ok |-> FALSE, auth |-> auth, calls |-> <<call>>]

authenticate(auth, username, password, securityToken, sandbox, resp) ==
    LET form == <<<<"grant_type", <<"password">>>>,
                  <<"client_id", auth.clientId>>,
                  <<"client_secret", auth.clientSecret>>,
                  <<"username", username>>,
                  <<"password", combinedPassword(password, securityToken)>>>>
        call == IdentityCall("exchange", sandbox, form, resp)
    IN  IF resp.kind = "resolved" /\ resp.status = 200
        THEN [ok |-> TRUE,
              auth |-> [auth EXCEPT !.accessToken = resp.access_token,
                                    !.instanceUrl = resp.instance_url,
                                    !.refreshToken = resp.refresh_token],
              calls |-> <<call>>]
        ELSE [ok |-> FALSE, auth |-> auth, calls |-> <<call>>]

refreshAccessTokenUnguarded(auth, sandbox, resp) ==
    LET form == <<<<"grant_type", <<"refresh_token">>>>,
                  <<"client_id", auth.clientId>>,
                  <<"client_secret", auth.clientSecret>>,
                  <<"refresh_token", auth.refreshToken>>>>
        call == IdentityCall("renew", sandbox, form, resp)
    IN  IF resp.kind = "resolved" /\ resp.status = 200
        THEN [ok |-> TRUE,
              auth |-> [auth EXCEPT !.accessToken = resp.access_token,
                                    !.instanceUrl = resp.instance_url],
              calls |-> <<call>>]
        ELSE [ok |-> FALSE, auth |-> auth, calls |-> <<call>>]

refreshAccessToken(auth, sandbox, resp) ==
    IF ~Truthy(auth.refreshToken)
    THEN [ok |-> FALSE, auth |-> auth, calls |-> <<>>]
    ELSE LET form == <<<<"grant_type", <<"refresh_token">>>>,
                       <<"client_id", auth.clientId>>,
                       <<"client_secret", auth.clientSecret>>,
                       <<"refresh_token", auth.refreshToken>>>>
             call == IdentityCall("renew", sandbox, form, resp)
         IN  IF resp.kind = "resolved" /\ resp.status = 200
             THEN [ok |-> TRUE,
                   auth |-> [auth EXCEPT !.accessToken = resp.access_token,
                                         !.instanceUrl = resp.instance_url],
                   calls |-> <<call>>]
             ELSE [ok |-> FALSE, auth |-> auth, calls |-> <<call>>]

authIsAuthenticatedTokenOnly(auth) == Truthy(auth.accessToken)

\* !!(this.accessToken && this.instanceUrl)
authIsAuthenticated(auth) == Truthy(auth.accessToken) /\ Truthy(auth.instanceUrl)

clearAuth(auth) ==
    [auth EXCEPT !.accessToken = Undefined, !.instanceUrl = Undefined,
                 !.refreshToken = Undefined]

(* ------------------------------------------------------------------ *)
(* SalesforceClient                                                    *)
(* ------------------------------------------------------------------ *)

NoError == [ctor |-> "none", message |-> <<>>, status |-> 0]

Error(message) == [ctor |-> "Error", message |-> message, status |-> 0]

\* The error axios rejects with, passed on as it is.
AxiosError(resp) ==
    [ctor |-> "AxiosError",
     message |-> IF resp.kind = "httpError"
                 THEN <<"Request failed with status code ", ToString(resp.status)>>
                 ELSE <<"Network Error">>,
     status |-> resp.status]

Returned(v) == [status |-> "returned", value |-> v, error |-> NoError, raised |-> FALSE]

Thrown(e) == [status |-> "thrown", value |-> Undefined, error |-> e, raised |-> FALSE]

errorMessageObjectOnly(resp) ==
    IF resp.body.message # Undefined THEN resp.body.message
    ELSE <<"HTTP ", ToString(resp.status)>>

\* errorData?.message ?? errorData?.[0]?.message ?? `HTTP ${status}`
errorMessage(resp) ==
    IF resp.body.message # Undefined THEN resp.body.message
    ELSE IF resp.body.firstMessage # Undefined THEN resp.body.firstMessage
    ELSE <<"HTTP ", ToString(resp.status)>>

handleRequestError(resp) ==
    IF resp.kind = "httpError"
    THEN Error(<<"Salesforce API Error: ">> \o errorMessage(resp))
    ELSE IF resp.kind = "noResponse"
    THEN Error(<<"Network error: Unable to reach Salesforce API">>)
    ELSE Error(<<"Unknown error occurred">>)

tryTokenRefreshAlwaysTrue(cfg, auth, resp) ==
    The({ [ok |-> TRUE, cfg |-> cfg, auth |-> r.auth, calls |-> r.calls] :
            r \in {refreshAccessToken(auth, cfg.sandbox, resp)} })

tryTokenRefresh(cfg, auth, resp) ==
    IF auth.present /\ Truthy(auth.refreshToken)
    THEN The({ IF r.ok
               THEN [ok |-> TRUE,
                     cfg |-> [cfg EXCEPT !.accessToken = r.auth.accessToken,
                                         !.instanceUrl = r.auth.instanceUrl],
                     auth |-> r.auth, calls |-> r.calls]
               ELSE [ok |-> FALSE, cfg |-> cfg, auth |-> r.auth, calls |-> r.calls] :
                 r \in {refreshAccessToken(auth, cfg.sandbox, resp)} })
    ELSE [ok |-> FALSE, cfg |-> cfg, auth |-> auth, calls |-> <<>>]

\* !!(this.config.accessToken && this.config.instanceUrl)
isAuthenticated(cfg) == Truthy(cfg.accessToken) /\ Truthy(cfg.instanceUrl)

notAuthenticatedUrlOnly(cfg) == ~Truthy(cfg.instanceUrl)

\* !this.config.accessToken || !this.config.instanceUrl
notAuthenticated(cfg) == ~Truthy(cfg.accessToken) \/ ~Truthy(cfg.instanceUrl)

DataCall(method, url, bearer, data, params, resp) ==
    [kind |-> "data", method |-> method, url |-> url, bearer |-> bearer,
     data |-> data, params |-> params, resp |-> resp]

isUnauthorizedAnyStatus(resp) == resp.kind = "httpError"

\* error.response?.status === 401
isUnauthorized(resp) == resp.kind = "httpError" /\ resp.status = 401

retryCallStaleToken(call, cfg, resp) == [call EXCEPT !.resp = resp]

\* config.headers.Authorization = `Bearer ${this.config.accessToken}`; axios(config)
retryCall(call, cfg, resp) ==
    [call EXCEPT !.bearer = cfg.accessToken, !.resp = resp]

retryResultSwallowed(resp) ==
    IF resp.kind = "resolved" THEN Returned(resp.payload) ELSE Returned(Undefined)

\* return retryResponse.data, or the rejection of the retry as it is
retryResult(resp) ==
    IF resp.kind = "resolved" THEN Returned(resp.payload) ELSE Thrown(AxiosError(resp))

\* The part of makeRequest after the first request has failed.
makeRequestCatch(cfg, auth, call1, env) ==
    The({ IF rf.ok
          THEN [cfg |-> rf.cfg, auth |-> rf.auth,
                calls |-> <<call1>> \o rf.calls
                             \o <<retryCall(call1, rf.cfg, env.retry)>>,
                result |-> retryResult(env.retry)]
          ELSE [cfg |-> rf.cfg, auth |-> rf.auth,
                calls |-> <<call1>> \o rf.calls,
                result |-> Thrown(handleRequestError(env.first))] :
            rf \in { IF isUnauthorized(env.first)
                     THEN tryTokenRefresh(cfg, auth, env.renew)
                     ELSE [ok |-> FALSE, cfg |-> cfg, auth |-> auth, calls |-> <<>>] } })

makeRequest(cfg, auth, req, env) ==
    IF notAuthenticated(cfg)
    THEN [cfg |-> cfg, auth |-> auth, calls |-> <<>>,
          result |-> Thrown(Error(<<"Not authenticated. Call connect() first.">>))]
    ELSE The({ IF env.first.kind = "resolved"
               THEN [cfg |-> cfg, auth |-> auth, calls |-> <<call1>>,
                     result |-> Returned(env.first.payload)]
               ELSE makeRequestCatch(cfg, auth, call1, env) :
                 call1 \in { DataCall(req.method, getApiUrl(cfg.instanceUrl, req.path),
                                      cfg.accessToken, req.data, req.params,
                                      env.first) } })

ProbeRequest ==
    [method |-> "GET", path |-> <<"/", "sobjects">>, data |-> Undefined, params |-> Undefined]

tryAccessTokenAuthNeverTrue(cfg, auth, env) ==
    IF Truthy(cfg.accessToken) /\ Truthy(cfg.instanceUrl)
    THEN The({ [ok |-> FALSE, cfg |-> m.cfg, auth |-> m.auth, calls |-> m.calls] :
                 m \in {makeRequest(cfg, auth, ProbeRequest, env)} })
    ELSE [ok |-> FALSE, cfg |-> cfg, auth |-> auth, calls |-> <<>>]

tryAccessTokenAuth(cfg, auth, env) ==
    IF Truthy(cfg.accessToken) /\ Truthy(cfg.instanceUrl)
    THEN The({ [ok |-> m.result.status = "returned",
                cfg |-> m.cfg, auth |-> m.auth, calls |-> m.calls] :
                 m \in {makeRequest(cfg, auth, ProbeRequest, env)} })
    ELSE [ok |-> FALSE, cfg |-> cfg, auth |-> auth, calls |-> <<>>]

\* this.config.securityToken ?? ''
securityTokenOrEmpty(cfg) ==
    IF cfg.securityToken = Undefined THEN <<>> ELSE cfg.securityToken

hasCredentialsPasswordOnly(cfg) ==
    Truthy(cfg.password) /\ Truthy(cfg.clientId) /\ Truthy(cfg.clientSecret)

\* username && password && clientId && clientSecret
hasCredentials(cfg) ==
    /\ Truthy(cfg.username)
    /\ Truthy(cfg.password)
    /\ Truthy(cfg.clientId)
    /\ Truthy(cfg.clientSecret)

tokensFromAuthKeepStale(cfg, auth) == cfg

\* this.config.accessToken = this.authClient.accessToken; same for instanceUrl
tokensFromAuth(cfg, auth) ==
    [cfg EXCEPT !.accessToken = auth.accessToken, !.instanceUrl = auth.instanceUrl]

tryUsernamePasswordAuth(cfg, auth, resp) ==
    IF hasCredentials(cfg)
    THEN The({ IF resp.kind = "raises"
               THEN [ok |-> FALSE, raised |-> TRUE, cfg |-> cfg,
                     auth |-> SalesforcePasswordAuth(cfg.clientId, cfg.clientSecret),
                     calls |-> a.calls]
               ELSE IF a.ok
               THEN [ok |-> TRUE, raised |-> FALSE,
                     cfg |-> tokensFromAuth(cfg, a.auth),
                     auth |-> a.auth, calls |-> a.calls]
               ELSE [ok |-> FALSE, raised |-> FALSE, cfg |-> cfg,
                     auth |-> a.auth, calls |-> a.calls] :
                 a \in { authenticate(
                            SalesforcePasswordAuth(cfg.clientId, cfg.clientSecret),
                            cfg.username, cfg.password, securityTokenOrEmpty(cfg),
                            cfg.sandbox, resp) } })
    ELSE [ok |-> FALSE, raised |-> FALSE, cfg |-> cfg, auth |-> auth, calls |-> <<>>]

handleAuthFailureTrue == TRUE

handleAuthFailure == FALSE

\* catch (error) { return this.tryTokenRefresh(); }
connectCatch(cfg, auth, before, resp) ==
    The({ [cfg |-> t.cfg, auth |-> t.auth, calls |-> before \o t.calls,
           result |-> [Returned(t.ok) EXCEPT !.raised = TRUE]] :
            t \in {tryTokenRefresh(cfg, auth, resp)} })

\* The part of connect after tryAccessTokenAuth has returned false.
connectFallback(cfg, auth, before, env) ==
    The({ IF u.raised
          THEN connectCatch(u.cfg, u.auth, before \o u.calls, env.recovery)
          ELSE [cfg |-> u.cfg, auth |-> u.auth, calls |-> before \o u.calls,
                result |-> Returned(u.ok \/ handleAuthFailure)] :
            u \in {tryUsernamePasswordAuth(cfg, auth, env.exchange)} })

connect(cfg, auth, env) ==
    The({ IF a.ok
          THEN [cfg |-> a.cfg, auth |-> a.auth, calls |-> a.calls,
                result |-> Returned(TRUE)]
          ELSE connectFallback(a.cfg, a.auth, a.calls, env) :
            a \in {tryAccessTokenAuth(cfg, auth, env.probe)} })

(* ------------------------------------------------------------------ *)
(* State machine                                                       *)
(* ------------------------------------------------------------------ *)

\* The arguments of the last operation, for operations that take none.
NoArgs == [op |-> "none"]

\* new Map(): the metadata cache maps the names in its domain.
EmptyCache == [n \in {} |-> <<>>]

\* No getObjectFields call is in flight.
NoPending == [c \in {} |-> <<>>]

\* Nothing has been written to the standard streams of the process.
NoOutput == [stdout |-> <<>>, stderr |-> <<>>]

\* The session material of the client.
Session(cfg, auth) ==
    [accessToken |-> cfg.accessToken, instanceUrl |-> cfg.instanceUrl,
     refreshToken |-> auth.refreshToken]

\* Requests the client's operations hand to makeRequest.
Requests ==
    { ProbeRequest,
      [method |-> "GET", path |-> <<"/", "query">>, data |-> Undefined,
       params |-> <<<<"q", <<"SELECT Id FROM Account">>>>>>],
      [method |-> "POST", path |-> <<"/", "sobjects", "/", "Account">>,
       data |-> <<<<"Name", <<"Acme">>>>>>, params |-> Undefined],
      [method |-> "PATCH", path |-> <<"sobjects", "/", "Account", "/", "001">>,
       data |-> <<<<"Name", <<"Acme">>>>>>, params |-> Undefined],
      [method |-> "DELETE", path |-> <<"/", "sobjects", "/", "Account", "/", "001">>,
       data |-> Undefined, params |-> Undefined] }

RequestEnvs == [first : DataResponses, renew : RenewResponses, retry : DataResponses]

ConnectEnvs ==
    [probe : RequestEnvs, exchange : ExchangeResponses \cup {Raises},
     recovery : RenewResponses]

Configs ==
    [clientId : {<<"id1">>}, clientSecret : {<<"sec1">>},
     username : {Undefined, <<"u@x.com">>}, password : {Undefined, <<"p">>},
     securityToken : {<<"tok">>}, sandbox : BOOLEAN,
     accessToken : {Undefined, <<>>, PreToken}, instanceUrl : {Undefined, PreUrl}]

Init ==
    /\ config \in Configs
    /\ authClient = NoAuthClient
    /\ lastOp = "none"
    /\ calls = <<>>
    /\ result = Returned(Undefined)
    /\ pre = Session(config, authClient)
    /\ args = NoArgs
    /\ sobjectsCache = EmptyCache
    /\ pending = NoPending
    /\ stdio = NoOutput

Connect ==
    \E env \in ConnectEnvs :
        \E r \in {connect(config, authClient, env)} :
            /\ config' = r.cfg
            /\ authClient' = r.auth
            /\ calls' = r.calls
            /\ result' = r.result
            /\ lastOp' = "connect"
            /\ pre' = Session(config, authClient)
            /\ UNCHANGED stdio
            /\ args' = NoArgs
            /\ UNCHANGED <<sobjectsCache, pending>>

MakeRequest ==
    \E req \in Requests, env \in RequestEnvs :
        \E r \in {makeRequest(config, authClient, req, env)} :
            /\ config' = r.cfg
            /\ authClient' = r.auth
            /\ calls' = r.calls
            /\ result' = r.result
            /\ lastOp' = "makeRequest"
            /\ pre' = Session(config, authClient)
            /\ UNCHANGED stdio
            /\ args' = NoArgs
            /\ UNCHANGED <<sobjectsCache, pending>>

Next == Connect \/ MakeRequest

Spec == Init /\ [][Next]_vars

(* ------------------------------------------------------------------ *)
(* Properties                                                          *)
(* ------------------------------------------------------------------ *)

\* The downstream requests of the last operation, by endpoint and grant.
DataCalls == SelectSeq(calls, LAMBDA c : c.kind = "data")
RenewCalls == SelectSeq(calls, LAMBDA c : c.kind = "renew")
ExchangeCalls == SelectSeq(calls, LAMBDA c : c.kind = "exchange")

\* The service answered the request with success.
Answered200(c) == c.resp.kind = "resolved" /\ c.resp.status = 200
Answered401(c) == c.resp.kind = "httpError" /\ c.resp.status = 401

HadSession == Truthy(pre.accessToken) /\ Truthy(pre.instanceUrl)

\* C1: in a makeRequest call whose first request is answered 401 and whose
\* renewal succeeds, the same request (method, URL, body, query parameters)
\* is sent once more with the access token of the renewal, and a successful
\* retry is the caller's result; no makeRequest call makes more than two
\* data requests or more than one renewal.
C1_RetryOnceWithRefreshedToken ==
    lastOp = "makeRequest" =>
        /\ Len(DataCalls) <= 2
        /\ Len(RenewCalls) <= 1
        /\ ( /\ Len(DataCalls) >= 1 /\ Answered401(DataCalls[1])
             /\ Len(RenewCalls) >= 1 /\ Answered200(RenewCalls[1]) )
           => /\ Len(DataCalls) = 2
              /\ DataCalls[2].method = DataCalls[1].method
              /\ DataCalls[2].url = DataCalls[1].url
              /\ DataCalls[2].data = DataCalls[1].data
              /\ DataCalls[2].params = DataCalls[1].params
              /\ DataCalls[2].bearer = RenewCalls[1].resp.access_token
              /\ Answered200(DataCalls[2])
                 => /\ result.status = "returned"
                    /\ result.value = DataCalls[2].resp.payload

C1_Witness ==
    /\ lastOp = "makeRequest"
    /\ HadSession
    /\ Len(calls) = 3
    /\ Answered401(calls[1])
    /\ calls[2].kind = "renew" /\ Answered200(calls[2])
    /\ calls[3].kind = "data" /\ Answered200(calls[3])
    /\ calls[3].bearer # calls[1].bearer
    /\ result.status = "returned"

\* C2: a makeRequest call whose first request is answered 401, whose renewal
\* succeeds and whose retry is answered 401 again fails, after exactly two
\* data requests and one renewal.
C2_SecondUnauthorizedFails ==
    ( /\ lastOp = "makeRequest"
      /\ Len(DataCalls) >= 2
      /\ Answered401(DataCalls[1])
      /\ Len(RenewCalls) >= 1 /\ Answered200(RenewCalls[1])
      /\ Answered401(DataCalls[2]) )
    => /\ result.status = "thrown"
       /\ Len(DataCalls) = 2
       /\ Len(RenewCalls) = 1
       /\ Len(calls) = 3

C2_Witness ==
    /\ lastOp = "makeRequest"
    /\ Len(calls) = 3
    /\ Answered401(calls[1])
    /\ calls[2].kind = "renew" /\ Answered200(calls[2])
    /\ calls[3].kind = "data" /\ Answered401(calls[3])
    /\ result.status = "thrown"

\* C3: a makeRequest call whose first request is answered 401 and whose
\* renewal does not succeed (rejected, or no refresh token held) makes that
\* one data request only and fails with the error of that request.
C3_NoRetryWithoutRenewal ==
    ( /\ lastOp = "makeRequest"
      /\ Len(DataCalls) >= 1
      /\ Answered401(DataCalls[1])
      /\ \A i \in 1..Len(RenewCalls) : ~Answered200(RenewCalls[i]) )
    => /\ Len(DataCalls) = 1
       /\ result.status = "thrown"
       /\ result.error.ctor = "Error"
       /\ result.error.message
            = <<"Salesforce API Error: ">> \o DataCalls[1].resp.body.firstMessage

C3_Witness ==
    /\ lastOp = "makeRequest"
    /\ Len(calls) = 2
    /\ Answered401(calls[1])
    /\ calls[2].kind = "renew" /\ ~Answered200(calls[2])
    /\ result.status = "thrown"

\* C4: makeRequest on a client whose accessToken or instanceUrl is unset
\* fails with the not-authenticated error without any downstream request.
C4_NotAuthenticatedBeforeNetwork ==
    (lastOp = "makeRequest" /\ ~HadSession)
    => /\ result.status = "thrown"
       /\ result.error.message = <<"Not authenticated. Call connect() first.">>
       /\ calls = <<>>

C4_Witness ==
    /\ lastOp = "makeRequest"
    /\ ~Truthy(pre.accessToken)
    /\ Truthy(pre.instanceUrl)
    /\ result.status = "thrown"
    /\ calls = <<>>

\* C5: connect() on a config whose pre-supplied accessToken and instanceUrl
\* the service accepts (the probe is answered with success) returns true
\* after that one probe and never calls the identity endpoint, whether or not
\* username and password are configured too.
C5_AcceptedTokenSkipsExchange ==
    ( /\ lastOp = "connect"
      /\ HadSession
      /\ Len(calls) >= 1
      /\ calls[1].kind = "data" /\ Answered200(calls[1]) )
    => /\ result.status = "returned" /\ result.value = TRUE
       /\ calls[1].bearer = pre.accessToken
       /\ Len(calls) = 1
       /\ ExchangeCalls = <<>>
       /\ RenewCalls = <<>>

C5_Witness ==
    /\ lastOp = "connect"
    /\ pre.accessToken = PreToken /\ pre.instanceUrl = PreUrl
    /\ Truthy(config.username) /\ Truthy(config.password)
    /\ Len(calls) = 1
    /\ calls[1].kind = "data" /\ Answered200(calls[1])
    /\ result.value = TRUE

\* C6: when the probe of a pre-supplied accessToken and instanceUrl fails and
\* username, password, clientId and clientSecret are configured, connect()
\* goes on to the credential exchange, and if the exchange succeeds it
\* returns true with the accessToken and instanceUrl of the exchange
\* response as the session.
C6_StaleTokenFallsThrough ==
    ( /\ lastOp = "connect"
      /\ HadSession
      /\ Truthy(config.username) /\ Truthy(config.password)
      /\ Truthy(config.clientId) /\ Truthy(config.clientSecret)
      /\ \A i \in 1..Len(DataCalls) : ~Answered200(DataCalls[i]) )
    => /\ Len(ExchangeCalls) = 1
       /\ calls[Len(DataCalls) + Len(RenewCalls) + 1].kind = "exchange"
       /\ Answered200(ExchangeCalls[1])
          => /\ result.status = "returned" /\ result.value = TRUE
             /\ config.accessToken = ExchangeCalls[1].resp.access_token
             /\ config.instanceUrl = ExchangeCalls[1].resp.instance_url

C6_Witness ==
    /\ lastOp = "connect"
    /\ pre.accessToken = PreToken /\ pre.instanceUrl = PreUrl
    /\ Len(calls) = 2
    /\ calls[1].kind = "data" /\ ~Answered200(calls[1])
    /\ calls[2].kind = "exchange" /\ Answered200(calls[2])
    /\ result.value = TRUE
    /\ config.accessToken # PreToken /\ config.instanceUrl # PreUrl

\* C7: when neither accessToken and instanceUrl are both present nor
\* username and password are both present, connect() reports failure and
\* makes no downstream request, to the data or the identity endpoint.
C7_NoStrategyNoNetwork ==
    ( /\ lastOp = "connect"
      /\ ~HadSession
      /\ ~(Truthy(config.username) /\ Truthy(config.password)) )
    => /\ result.status = "returned" /\ result.value = FALSE
       /\ calls = <<>>

C7_Witness ==
    /\ lastOp = "connect"
    /\ ~HadSession
    /\ ~Truthy(config.username) /\ Truthy(config.password)
    /\ result.value = FALSE
    /\ calls = <<>>

\* C8: connect() returns true only if, during the call, a probe request, the
\* credential exchange or a renewal was answered with success; when the
\* exchange is rejected and no probe request succeeded it returns false.
C8_TrueOnlyOnSuccess ==
    lastOp = "connect" =>
        /\ result.status = "returned"
        /\ result.value = TRUE
           => \E i \in 1..Len(calls) : Answered200(calls[i])
        /\ ( /\ Len(ExchangeCalls) >= 1
             /\ ExchangeCalls[1].resp.kind # "raises"
             /\ ~Answered200(ExchangeCalls[1])
             /\ \A i \in 1..Len(DataCalls) : ~Answered200(DataCalls[i]) )
           => result.value = FALSE

C8_Witness ==
    /\ lastOp = "connect"
    /\ Len(ExchangeCalls) = 1
    /\ ExchangeCalls[1].resp.kind = "httpError"
    /\ \A i \in 1..Len(DataCalls) : ~Answered200(DataCalls[i])
    /\ result.value = FALSE

SessionNow == Session(config, authClient)

C10_SessionChangesOnlyOnSuccess ==
    (lastOp # "none" /\ SessionNow # pre)
    => \E i \in 1..Len(calls) :
          calls[i].kind \in {"exchange", "renew"} /\ Answered200(calls[i])

(* ------------------------------------------------------------------ *)
(* SpecAuth: a SalesforcePasswordAuth object driven directly           *)
(* ------------------------------------------------------------------ *)

\* The identity endpoint cannot be reached.
IdentityUnreachable ==
    [kind |-> "noResponse", status |-> 0,
     access_token |-> Undefined, instance_url |-> Undefined, refresh_token |-> Undefined]

\* A refresh token the identity endpoint hands out in a renewal answer.
RotatedTok == <<"rotated">>

AuthExchangeResponses == ExchangeResponses \cup {IdentityUnreachable}

AuthRenewResponses ==
    {Granted(t, ServiceUrl, r) : t \in ServiceTokens, r \in {Undefined, RotatedTok}}
        \cup {Rejected, Accepted202, IdentityUnreachable}

\* The three public session fields of the auth object.
AuthSession(auth) ==
    [accessToken |-> auth.accessToken, instanceUrl |-> auth.instanceUrl,
     refreshToken |-> auth.refreshToken]

\* Auth objects with their public fields as a caller may have left them.
AuthObjects ==
    [present : {TRUE}, clientId : {<<"id1">>}, clientSecret : {<<"sec1">>},
     accessToken : {Undefined, <<>>, PreToken},
     instanceUrl : {Undefined, <<>>, PreUrl},
     refreshToken : {Undefined, RefreshTok}]

AuthConfigs ==
    [clientId : {<<"id1">>}, clientSecret : {<<"sec1">>},
     username : {<<"u@x.com">>}, password : {<<"p">>},
     securityToken : {<<"tok">>}, sandbox : {FALSE},
     accessToken : {Undefined, <<>>, PreToken},
     instanceUrl : {Undefined, <<>>, PreUrl}]

AuthPasswords == {<<"p">>}
AuthSecurityTokens == {<<>>, <<"tok">>}

InitAuth ==
    /\ config \in AuthConfigs
    /\ authClient \in AuthObjects
    /\ lastOp = "none"
    /\ calls = <<>>
    /\ result = Returned(Undefined)
    /\ pre = AuthSession(authClient)
    /\ args = NoArgs
    /\ sobjectsCache = EmptyCache
    /\ pending = NoPending
    /\ stdio = NoOutput

AuthAuthenticate ==
    \E password \in AuthPasswords, securityToken \in AuthSecurityTokens,
       sandbox \in BOOLEAN, resp \in AuthExchangeResponses :
        \E r \in {authenticate(authClient, <<"u@x.com">>, password, securityToken,
                               sandbox, resp)} :
            /\ authClient' = r.auth
            /\ calls' = r.calls
            /\ result' = Returned(r.ok)
            /\ lastOp' = "auth.authenticate"
            /\ pre' = AuthSession(authClient)
            /\ UNCHANGED stdio
            /\ args' = [op |-> "authenticate", password |-> password,
                        securityToken |-> securityToken, sandbox |-> sandbox]
            /\ UNCHANGED <<config, sobjectsCache, pending>>

AuthRefreshAccessToken ==
    \E sandbox \in BOOLEAN, resp \in AuthRenewResponses :
        \E r \in {refreshAccessToken(authClient, sandbox, resp)} :
            /\ authClient' = r.auth
            /\ calls' = r.calls
            /\ result' = Returned(r.ok)
            /\ lastOp' = "auth.refreshAccessToken"
            /\ pre' = AuthSession(authClient)
            /\ UNCHANGED stdio
            /\ args' = NoArgs
            /\ UNCHANGED <<config, sobjectsCache, pending>>

AuthClearAuth ==
    /\ authClient' = clearAuth(authClient)
    /\ calls' = <<>>
    /\ result' = Returned(Undefined)
    /\ lastOp' = "auth.clearAuth"
    /\ pre' = AuthSession(authClient)
    /\ UNCHANGED stdio
    /\ args' = NoArgs
    /\ UNCHANGED <<config, sobjectsCache, pending>>

AuthIsAuthenticated ==
    /\ result' = Returned(authIsAuthenticated(authClient))
    /\ calls' = <<>>
    /\ lastOp' = "auth.isAuthenticated"
    /\ pre' = AuthSession(authClient)
    /\ UNCHANGED stdio
    /\ args' = NoArgs
    /\ UNCHANGED <<config, authClient, sobjectsCache, pending>>

ClientIsAuthenticated ==
    /\ result' = Returned(isAuthenticated(config))
    /\ calls' = <<>>
    /\ lastOp' = "isAuthenticated"
    /\ pre' = AuthSession(authClient)
    /\ UNCHANGED stdio
    /\ args' = NoArgs
    /\ UNCHANGED <<config, authClient, sobjectsCache, pending>>

NextAuth ==
    \/ AuthAuthenticate
    \/ AuthRefreshAccessToken
    \/ AuthClearAuth
    \/ AuthIsAuthenticated
    \/ ClientIsAuthenticated

SpecAuth == InitAuth /\ [][NextAuth]_vars

AuthNow == AuthSession(authClient)

\* C11: refreshAccessToken on an auth object that holds no refresh token
\* (a fresh object, one after clearAuth, one after an exchange whose answer
\* had no refresh_token) reports failure without any downstream request and
\* leaves the object as it was.
C11_NoRefreshTokenNoNetwork ==
    (lastOp = "auth.refreshAccessToken" /\ ~Truthy(pre.refreshToken))
    => /\ result.status = "returned" /\ result.value = FALSE
       /\ calls = <<>>
       /\ AuthNow = pre

C11_Witness ==
    /\ lastOp = "auth.refreshAccessToken"
    /\ pre.refreshToken = Undefined
    /\ Truthy(pre.accessToken)
    /\ result.value = FALSE
    /\ calls = <<>>

C13_RefreshReplacesTokens ==
    lastOp = "auth.refreshAccessToken" =>
        /\ result.value = TRUE
           => /\ authClient.accessToken = calls[1].resp.access_token
              /\ authClient.instanceUrl = calls[1].resp.instance_url
              /\ authClient.refreshToken
                   = IF calls[1].resp.refresh_token # Undefined
                     THEN calls[1].resp.refresh_token
                     ELSE pre.refreshToken
        /\ result.value = FALSE => AuthNow = pre

\* C14: the password field of the exchange request is the password followed
\* by the security token when one is supplied and the bare password
\* otherwise, and the request goes to /services/oauth2/token under the
\* sandbox identity base exactly when sandbox is set, else under the
\* production one.
C14_PasswordAndIdentityUrl ==
    lastOp = "auth.authenticate" =>
        /\ calls[1].data[5][1] = "password"
        /\ calls[1].data[5][2]
             = IF args.securityToken # <<>>
               THEN args.password \o args.securityToken
               ELSE args.password
        /\ calls[1].url
             = (IF args.sandbox THEN <<"https://test.salesforce.com">>
                                ELSE <<"https://login.salesforce.com">>)
               \o <<"/", "services", "/", "oauth2", "/", "token">>

C14_Witness ==
    /\ lastOp = "auth.authenticate"
    /\ args.sandbox
    /\ args.securityToken = <<"tok">>
    /\ calls[1].data[5][2] = <<"p", "tok">>
    /\ calls[1].url[1] = "https://test.salesforce.com"

\* C15: isAuthenticated, on the auth object and on the client, is true
\* exactly when both accessToken and instanceUrl are present and non-empty,
\* and makes no downstream request.
C15_IsAuthenticatedIffBoth ==
    /\ lastOp = "auth.isAuthenticated"
       => /\ calls = <<>>
          /\ result.value
               = ( /\ authClient.accessToken \notin {Undefined, <<>>}
                   /\ authClient.instanceUrl \notin {Undefined, <<>>} )
    /\ lastOp = "isAuthenticated"
       => /\ calls = <<>>
          /\ result.value
               = ( /\ config.accessToken \notin {Undefined, <<>>}
                   /\ config.instanceUrl \notin {Undefined, <<>>} )

C15_Witness ==
    /\ lastOp = "auth.isAuthenticated"
    /\ authClient.accessToken = PreToken
    /\ authClient.instanceUrl = <<>>
    /\ result.value = FALSE
    /\ calls = <<>>

(* ------------------------------------------------------------------ *)
(* SpecQuery: query and queryAll against a paged result                *)
(* ------------------------------------------------------------------ *)

\* Number of answers the service has ready for one queryAll call.
MaxPages == 3

\* Total number of records the service reports for the query.
TotalSize == 6

QueryRequest(soql) ==
    [method |-> "GET", path |-> <<"/", "query">>, data |-> Undefined,
     params |-> <<<<"q", soql>>>>]

\* query(soql): makeRequest('GET', '/query', undefined, { q: soql })
query(cfg, auth, soql, env) == makeRequest(cfg, auth, QueryRequest(soql), env)

\* nextRecordsUrl.replace(`/services/data/v58.0`, ''): the first occurrence
\* of the literal is cut out, a locator without it stays as it is.
stripApiPrefix(url) ==
    LET pat == <<"/", "services", "/", "data", "/", "v58.0">>
        at == {i \in 1..(Len(url) - Len(pat) + 1) :
                  SubSeq(url, i, i + Len(pat) - 1) = pat}
    IN  IF at = {} THEN url
        ELSE The({ SubSeq(url, 1, i - 1) \o SubSeq(url, i + Len(pat), Len(url)) :
                     i \in {CHOOSE j \in at : \A k \in at : j <= k} })

NextPageRequestRestarts(res) ==
    [method |-> "GET", path |-> <<"/", "query">>, data |-> Undefined,
     params |-> Undefined]

NextPageRequest(res) ==
    [method |-> "GET", path |-> stripApiPrefix(res.nextRecordsUrl),
     data |-> Undefined, params |-> Undefined]

moreToFetchIgnoresLocator(res) == ~res.done

\* !result.done && result.nextRecordsUrl
moreToFetch(res) == ~res.done /\ Truthy(res.nextRecordsUrl)

mergePagePrepends(res, nextResult) ==
    [records |-> nextResult.records \o res.records, done |-> nextResult.done,
     nextRecordsUrl |-> nextResult.nextRecordsUrl, totalSize |-> nextResult.totalSize]

\* records.push(...nextResult.records); done, nextRecordsUrl and totalSize
\* are taken over from nextResult.
mergePage(res, nextResult) ==
    [records |-> res.records \o nextResult.records, done |-> nextResult.done,
     nextRecordsUrl |-> nextResult.nextRecordsUrl, totalSize |-> nextResult.totalSize]

\* The call is still draining when the answers the service has ready are
\* used up.
Draining(res) == [status |-> "pending", value |-> res, error |-> NoError, raised |-> FALSE]

\* The while loop of queryAll; stream holds the answers to the requests to come.
RECURSIVE queryAllLoop(_, _, _, _, _)
queryAllLoop(cfg, auth, res, before, stream) ==
    IF ~moreToFetch(res)
    THEN [cfg |-> cfg, auth |-> auth, calls |-> before, result |-> Returned(res)]
    ELSE IF stream = <<>>
    THEN [cfg |-> cfg, auth |-> auth, calls |-> before, result |-> Draining(res)]
    ELSE The({ IF m.result.status = "returned"
               THEN queryAllLoop(m.cfg, m.auth, mergePage(res, m.result.value),
                                 before \o m.calls, Tail(stream))
               ELSE [cfg |-> m.cfg, auth |-> m.auth, calls |-> before \o m.calls,
                     result |-> m.result] :
                 m \in {makeRequest(cfg, auth, NextPageRequest(res), Head(stream))} })

queryAll(cfg, auth, soql, stream) ==
    The({ IF first.result.status = "returned"
          THEN queryAllLoop(first.cfg, first.auth, first.result.value,
                            first.calls, Tail(stream))
          ELSE first :
            first \in {query(cfg, auth, soql, Head(stream))} })

\* The continuation locator the service puts on its k-th page.
Locator(k) ==
    <<"/", "services", "/", "data", "/", "v58.0", "/", "query", "/", "01g", ToString(k)>>

\* The records of the k-th page: k records, no record on two pages.
PageRecords(k) == [j \in 1..k |-> [Id |-> <<k, j>>]]

Page(k, done, locator) ==
    [kind |-> "resolved", status |-> 200, body |-> NoBody,
     payload |-> [records |-> PageRecords(k), done |-> done,
                  nextRecordsUrl |-> locator, totalSize |-> TotalSize]]

\* Answers of the data endpoint to the k-th request of a query.
PageResponses(k) ==
    {Page(k, done, locator) : done \in BOOLEAN, locator \in {Undefined, Locator(k)}}
        \cup {Http500}

\* What the service has ready for the requests of one call, in order.
PageStreams ==
    { stream \in [1..MaxPages -> [first : UNION {PageResponses(k) : k \in 1..MaxPages},
                                  renew : {Rejected}, retry : {Http500}]] :
        \A k \in 1..MaxPages : stream[k].first \in PageResponses(k) }

Queries == {<<"SELECT Id FROM Account">>}

QueryConfigs ==
    [clientId : {<<"id1">>}, clientSecret : {<<"sec1">>},
     username : {Undefined}, password : {Undefined},
     securityToken : {Undefined}, sandbox : {FALSE},
     accessToken : {Undefined, PreToken},
     instanceUrl : {PreUrl, PreUrl \o <<"/">>}]

InitQuery ==
    /\ config \in QueryConfigs
    /\ authClient = NoAuthClient
    /\ lastOp = "none"
    /\ calls = <<>>
    /\ result = Returned(Undefined)
    /\ pre = Session(config, authClient)
    /\ args = NoArgs
    /\ sobjectsCache = EmptyCache
    /\ pending = NoPending
    /\ stdio = NoOutput

Query ==
    \E soql \in Queries, stream \in {<<s[1]>> : s \in PageStreams} :
        \E r \in {query(config, authClient, soql, stream[1])} :
            /\ config' = r.cfg
            /\ authClient' = r.auth
            /\ calls' = r.calls
            /\ result' = r.result
            /\ lastOp' = "query"
            /\ pre' = Session(config, authClient)
            /\ UNCHANGED stdio
            /\ args' = [op |-> "query", query |-> soql, stream |-> stream]
            /\ UNCHANGED <<sobjectsCache, pending>>

QueryAll ==
    \E soql \in Queries, stream \in PageStreams :
        \E r \in {queryAll(config, authClient, soql, stream)} :
            /\ config' = r.cfg
            /\ authClient' = r.auth
            /\ calls' = r.calls
            /\ result' = r.result
            /\ lastOp' = "queryAll"
            /\ pre' = Session(config, authClient)
            /\ UNCHANGED stdio
            /\ args' = [op |-> "queryAll", query |-> soql, stream |-> stream]
            /\ UNCHANGED <<sobjectsCache, pending>>

SearchRequest(sosl) ==
    [method |-> "GET", path |-> <<"/", "search">>, data |-> Undefined,
     params |-> <<<<"q", sosl>>>>]

searchRequiresField(cfg, auth, sosl, env) ==
    The({ IF r.result.status = "returned"
          THEN [r EXCEPT !.result =
                    IF r.result.value.hasSearchRecords
                    THEN Returned(r.result.value.searchRecords)
                    ELSE Thrown(Error(<<"Unknown error occurred">>))]
          ELSE r :
            r \in {makeRequest(cfg, auth, SearchRequest(sosl), env)} })

\* search(searchQuery): makeRequest('GET', '/search', undefined, { q }),
\* then result.searchRecords ?? []
search(cfg, auth, sosl, env) ==
    The({ IF r.result.status = "returned"
          THEN [r EXCEPT !.result =
                    Returned(IF r.result.value.hasSearchRecords
                             THEN r.result.value.searchRecords
                             ELSE <<>>)]
          ELSE r :
            r \in {makeRequest(cfg, auth, SearchRequest(sosl), env)} })

\* The body of a successful search: searchRecords may be missing.
SearchResult(has, records) ==
    [kind |-> "resolved", status |-> 200, body |-> NoBody,
     payload |-> [hasSearchRecords |-> has, searchRecords |-> records]]

\* Answers of the search endpoint: matches, no match, no searchRecords
\* field, or a failure.
SearchResponses ==
    {SearchResult(TRUE, PageRecords(2)), SearchResult(TRUE, PageRecords(1)),
     SearchResult(TRUE, <<>>), SearchResult(FALSE, <<>>), Http500}

SearchEnvs == [first : SearchResponses, renew : {Rejected}, retry : {Http500}]

Searches == {<<"FIND {Acme}">>}

Search ==
    \E sosl \in Searches, env \in SearchEnvs :
        \E r \in {search(config, authClient, sosl, env)} :
            /\ config' = r.cfg
            /\ authClient' = r.auth
            /\ calls' = r.calls
            /\ result' = r.result
            /\ lastOp' = "search"
            /\ pre' = Session(config, authClient)
            /\ UNCHANGED stdio
            /\ args' = [op |-> "search", query |-> sosl, env |-> env]
            /\ UNCHANGED <<sobjectsCache, pending>>

NextQuery == Query \/ QueryAll \/ Search

SpecQuery == InitQuery /\ [][NextQuery]_vars

\* The answer the service has ready for the k-th request is a page.
IsPage(k) == args.stream[k].first.kind = "resolved"
PageAt(k) == args.stream[k].first.payload

\* The k-th page is the last one of the result: done, or no locator.
LastPage(k) == PageAt(k).done \/ PageAt(k).nextRecordsUrl \in {Undefined, <<>>}

\* The service returns the result in n pages: n - 1 pages that name a next
\* page and then one that reports done.
InPages(n) ==
    /\ \A k \in 1..n : IsPage(k)
    /\ \A k \in 1..(n - 1) : ~LastPage(k)
    /\ PageAt(n).done

RECURSIVE RecordsOfPages(_)
RecordsOfPages(n) ==
    IF n = 0 THEN <<>> ELSE RecordsOfPages(n - 1) \o PageAt(n).records

\* C16: for a query whose result the service returns in N pages, queryAll
\* makes exactly N downstream requests: the query itself and then one request
\* per continuation locator, never the query again; what it returns holds the
\* records of page 1, then page 2, ... then page N, each record once.
C16_QueryAllConcatenatesPages ==
    \A n \in 1..MaxPages :
        (lastOp = "queryAll" /\ HadSession /\ InPages(n))
        => /\ result.status = "returned"
           /\ Len(calls) = n
           /\ \A i \in 1..n : calls[i].kind = "data" /\ calls[i].resp = args.stream[i].first
           /\ calls[1].url = getApiUrl(pre.instanceUrl, <<"/", "query">>)
           /\ calls[1].params = <<<<"q", args.query>>>>
           /\ \A i \in 2..n :
                 /\ calls[i].method = "GET"
                 /\ calls[i].url = cleanInstanceUrl(pre.instanceUrl)
                                      \o PageAt(i - 1).nextRecordsUrl
                 /\ calls[i].params = Undefined
                 /\ calls[i].url # calls[1].url
           /\ result.value.records = RecordsOfPages(n)
           /\ \A i, j \in 1..Len(result.value.records) :
                 result.value.records[i] = result.value.records[j] => i = j

C16_Witness ==
    /\ lastOp = "queryAll"
    /\ HadSession
    /\ InPages(3)
    /\ Len(calls) = 3
    /\ Len(result.value.records) = 6
    /\ result.value.records[1] = [Id |-> <<1, 1>>]
    /\ result.value.records[6] = [Id |-> <<3, 3>>]

\* C17: queryAll stops at the first page that reports done or carries no
\* continuation locator and makes no request after it; a page that reports
\* done = false without a locator ends the call like a done page, so the
\* call ends whenever the pages of the service contain such a page.
C17_StopsAtFirstLastPage ==
    \A n \in 1..MaxPages :
        ( /\ lastOp = "queryAll" /\ HadSession
          /\ \A k \in 1..n : IsPage(k)
          /\ \A k \in 1..(n - 1) : ~LastPage(k)
          /\ LastPage(n) )
        => /\ result.status = "returned"
           /\ Len(calls) = n
           /\ calls[n].resp = args.stream[n].first
           /\ result.value.records = RecordsOfPages(n)

C17_Witness ==
    /\ lastOp = "queryAll"
    /\ HadSession
    /\ IsPage(1) /\ ~LastPage(1)
    /\ IsPage(2) /\ ~PageAt(2).done /\ PageAt(2).nextRecordsUrl = Undefined
    /\ IsPage(3) /\ ~LastPage(3)
    /\ result.status = "returned"
    /\ Len(calls) = 2

(* ------------------------------------------------------------------ *)
(* SpecCache: getObjectFields and the metadata cache of one client     *)
(* ------------------------------------------------------------------ *)

ObjectNames == {"Account", "Contact"}

\* A field as the describe call returns it, with attributes the client drops.
RawField(name, label) ==
    [label |-> label, name |-> name, updateable |-> TRUE, type |-> "string",
     length |-> 255, picklistValues |-> <<>>, nillable |-> FALSE]

\* The field list of an object, before and after the remote schema changes.
FieldsV1 == <<RawField("Name", "Name")>>
FieldsV2 == <<RawField("Name", "Full Name"), RawField("Phone", "Phone")>>

Described(objectName, fields) ==
    [kind |-> "resolved", status |-> 200, body |-> NoBody,
     payload |-> [name |-> objectName, label |-> objectName, hasFields |-> TRUE,
                  fields |-> fields]]

\* A 200 answer whose body carries no fields member.
Undescribed(objectName) ==
    [kind |-> "resolved", status |-> 200, body |-> NoBody,
     payload |-> [name |-> objectName, label |-> objectName, hasFields |-> FALSE,
                  fields |-> <<>>]]

\* What metadata.fields.map throws when metadata.fields is undefined.
TypeError ==
    [ctor |-> "TypeError",
     message |-> <<"Cannot read properties of undefined (reading 'map')">>,
     status |-> 0]

DescribeRequest(objectName) ==
    [method |-> "GET", path |-> <<"/", "sobjects", "/", objectName, "/", "describe">>,
     data |-> Undefined, params |-> Undefined]

\* metadata.fields.map(field => ({ label, name, updateable, type, length,
\* picklistValues }))
filteredFields(fields) ==
    [i \in 1..Len(fields) |->
        [label |-> fields[i].label, name |-> fields[i].name,
         updateable |-> fields[i].updateable, type |-> fields[i].type,
         length |-> fields[i].length, picklistValues |-> fields[i].picklistValues]]

cacheHasNever(cache, objectName) == FALSE

\* this.sobjectsCache.has(objectName)
cacheHas(cache, objectName) == objectName \in DOMAIN cache

\* this.sobjectsCache.set(objectName, fields)
cacheSet(cache, objectName, fields) ==
    [k \in DOMAIN cache \cup {objectName} |->
        IF k = objectName THEN fields ELSE cache[k]]

getObjectFieldsDoneCachesFailure(cache, objectName, m) ==
    IF m.result.status = "returned" /\ m.result.value.hasFields
    THEN The({ [cfg |-> m.cfg, auth |-> m.auth, calls |-> m.calls,
                cache |-> cacheSet(cache, objectName, f), result |-> Returned(f)] :
                 f \in {filteredFields(m.result.value.fields)} })
    ELSE [cfg |-> m.cfg, auth |-> m.auth, calls |-> m.calls,
          cache |-> cacheSet(cache, objectName, <<>>),
          result |-> IF m.result.status = "returned" THEN Thrown(TypeError)
                     ELSE m.result]

\* The part of getObjectFields after the awaited describe request.
getObjectFieldsDone(cache, objectName, m) ==
    IF m.result.status = "returned"
    THEN IF m.result.value.hasFields
         THEN The({ [cfg |-> m.cfg, auth |-> m.auth, calls |-> m.calls,
                     cache |-> cacheSet(cache, objectName, f), result |-> Returned(f)] :
                      f \in {filteredFields(m.result.value.fields)} })
         ELSE [cfg |-> m.cfg, auth |-> m.auth, calls |-> m.calls,
               cache |-> cache, result |-> Thrown(TypeError)]
    ELSE [cfg |-> m.cfg, auth |-> m.auth, calls |-> m.calls,
          cache |-> cache, result |-> m.result]

getObjectFields(cfg, auth, cache, objectName, env) ==
    IF cacheHas(cache, objectName)
    THEN [cfg |-> cfg, auth |-> auth, calls |-> <<>>, cache |-> cache,
          result |-> Returned(cache[objectName])]
    ELSE The({ getObjectFieldsDone(cache, objectName, m) :
                 m \in {makeRequest(cfg, auth, DescribeRequest(objectName), env)} })

\* Answers to the requests of one getObjectFields(objectName) call.
DescribeEnvs(objectName) ==
    [first : {Described(objectName, FieldsV1), Described(objectName, FieldsV2),
              Undescribed(objectName), Http401, Http500},
     renew : {Granted(Rep("tok", 1), ServiceUrl, Undefined), Rejected},
     retry : {Described(objectName, FieldsV1), Http401}]

\* Answers to the requests of a connect() call of this specification.
CacheConnectEnvs ==
    [probe : [first : {OkResponse, Http401}, renew : {Rejected}, retry : {Http500}],
     exchange : {Granted(Rep("tok", 1), ServiceUrl, RefreshTok), Rejected},
     recovery : {Rejected}]

\* The environment of the server process: credentials and a token.
EnvConfig ==
    [clientId |-> <<"id1">>, clientSecret |-> <<"sec1">>,
     username |-> <<"u@x.com">>, password |-> <<"p">>,
     securityToken |-> <<"tok">>, sandbox |-> FALSE,
     accessToken |-> PreToken, instanceUrl |-> PreUrl]

InitCache ==
    /\ config \in {EnvConfig, [EnvConfig EXCEPT !.accessToken = Undefined]}
    /\ authClient = NoAuthClient
    /\ lastOp = "none"
    /\ calls = <<>>
    /\ result = Returned(Undefined)
    /\ pre = Session(config, authClient)
    /\ args = NoArgs
    /\ sobjectsCache = EmptyCache
    /\ pending = NoPending
    /\ stdio = NoOutput

GetObjectFields ==
    \E objectName \in ObjectNames :
        \E env \in DescribeEnvs(objectName) :
            \E r \in {getObjectFields(config, authClient, sobjectsCache, objectName, env)} :
                /\ config' = r.cfg
                /\ authClient' = r.auth
                /\ sobjectsCache' = r.cache
                /\ calls' = r.calls
                /\ result' = r.result
                /\ lastOp' = "getObjectFields"
                /\ pre' = Session(config, authClient)
                /\ UNCHANGED stdio
                /\ args' = [op |-> "getObjectFields", objectName |-> objectName]
                /\ UNCHANGED pending

CacheConnect ==
    \E env \in CacheConnectEnvs :
        \E r \in {connect(config, authClient, env)} :
            /\ config' = r.cfg
            /\ authClient' = r.auth
            /\ calls' = r.calls
            /\ result' = r.result
            /\ lastOp' = "connect"
            /\ pre' = Session(config, authClient)
            /\ UNCHANGED stdio
            /\ args' = NoArgs
            /\ UNCHANGED <<sobjectsCache, pending>>

CacheQuery ==
    \E soql \in Queries, resp \in PageResponses(1) :
        \E r \in {query(config, authClient, soql,
                        [first |-> resp, renew |-> Rejected, retry |-> Http500])} :
            /\ config' = r.cfg
            /\ authClient' = r.auth
            /\ calls' = r.calls
            /\ result' = r.result
            /\ lastOp' = "query"
            /\ pre' = Session(config, authClient)
            /\ UNCHANGED stdio
            /\ args' = NoArgs
            /\ UNCHANGED <<sobjectsCache, pending>>

NextCache == GetObjectFields \/ CacheConnect \/ CacheQuery

SpecCache == InitCache /\ [][NextCache]_vars

\* The step is a getObjectFields(n) call.
GetObjectFieldsStep(n) == lastOp' = "getObjectFields" /\ args'.objectName = n

ToolText(text, data) == Returned([text |-> text, data |-> data])

\* The catch of the tool dispatcher: the message of the error as text.
ToolError(e) == ToolText(<<"Error: ">> \o e.message, <<>>)

ensureAuthenticatedNever(cfg) == Returned(Undefined)

\* if (!this.salesforceClient.isAuthenticated()) throw new Error(...)
ensureAuthenticated(cfg) ==
    IF ~isAuthenticated(cfg)
    THEN Thrown(Error(<<"Not authenticated. Please authenticate first using the authenticate_password tool.">>))
    ELSE Returned(Undefined)

\* ensureAuthenticated(), then getObjectFields of the client.
handleGetObjectFields(cfg, auth, cache, objectName, env) ==
    IF ensureAuthenticated(cfg).status = "thrown"
    THEN [cfg |-> cfg, auth |-> auth, cache |-> cache, calls |-> <<>>,
          result |-> ToolError(ensureAuthenticated(cfg).error)]
    ELSE The({ [cfg |-> r.cfg, auth |-> r.auth, cache |-> r.cache, calls |-> r.calls,
                result |-> IF r.result.status = "returned"
                           THEN ToolText(<<objectName, " Metadata (JSON):">>,
                                         r.result.value)
                           ELSE ToolError(r.result.error)] :
                 r \in {getObjectFields(cfg, auth, cache, objectName, env)} })

\* this.salesforceClient = new SalesforceClient({...config, username,
\* password, securityToken, sandbox}): a client with a cache of its own.
handleAuthenticatePassword(cfg, auth, cache, toolArgs, env) ==
    IF ~Truthy(toolArgs.username) \/ ~Truthy(toolArgs.password)
    THEN [cfg |-> cfg, auth |-> auth, cache |-> cache, calls |-> <<>>,
          result |-> ToolError(Error(<<"Password authentication requires username and password parameters.">>))]
    ELSE The({ [cfg |-> r.cfg, auth |-> r.auth, cache |-> EmptyCache, calls |-> r.calls,
                result |-> IF r.result.value
                           THEN ToolText(<<"Password authentication successful!">>, <<>>)
                           ELSE ToolError(Error(<<"Password authentication failed. Please check your credentials and try again.">>))] :
                 r \in {connect([EnvConfig EXCEPT !.username = toolArgs.username,
                                                  !.password = toolArgs.password,
                                                  !.securityToken = toolArgs.security_token,
                                                  !.sandbox = toolArgs.sandbox],
                                NoAuthClient, env)} })

AuthenticatePasswordArgs ==
    [username : {Undefined, <<"u@x.com">>}, password : {<<"p">>},
     security_token : {<<>>}, sandbox : {FALSE}]

InitServer ==
    /\ config = EnvConfig
    /\ authClient = NoAuthClient
    /\ lastOp = "none"
    /\ calls = <<>>
    /\ result = Returned(Undefined)
    /\ pre = Session(config, authClient)
    /\ args = NoArgs
    /\ sobjectsCache = EmptyCache
    /\ pending = NoPending
    /\ stdio = NoOutput

\* A connect() that rejects, as a stubbed client does: nothing is sent and
\* the client is left as it was.
connectRejects(cfg, auth) ==
    [cfg |-> cfg, auth |-> auth, calls |-> <<>>,
     result |-> Thrown(Error(<<"Connection failed">>))]

\* What initialize() saw of connect(): "true", "false" or "rejects".
connectOutcome(c) ==
    IF c.result.status = "thrown" THEN "rejects"
    ELSE IF c.result.value THEN "true" ELSE "false"

initializeRethrows(c) ==
    [c EXCEPT !.result = IF c.result.status = "thrown" THEN c.result
                         ELSE Returned(Undefined)]

\* try { if (await connect()) ... else ... } catch (error) { errorLog(...) }:
\* c is what connect() came to.
initialize(c) ==
    [c EXCEPT !.result = IF c.result.status = "thrown" THEN Returned(Undefined)
                         ELSE Returned(Undefined)]

\* initialize(): connect() at start-up, whatever comes of it.
Initialize ==
    \E env \in CacheConnectEnvs, rejects \in BOOLEAN :
        \E c \in {IF rejects THEN connectRejects(config, authClient)
                  ELSE connect(config, authClient, env)} :
            \E r \in {initialize(c)} :
                /\ lastOp = "none"
                /\ config' = r.cfg
                /\ authClient' = r.auth
                /\ calls' = r.calls
                /\ result' = r.result
                /\ lastOp' = "initialize"
                /\ pre' = Session(config, authClient)
                /\ UNCHANGED stdio
                /\ args' = [op |-> "initialize", connect |-> connectOutcome(c)]
                /\ UNCHANGED <<sobjectsCache, pending>>

ToolGetObjectFields ==
    \E objectName \in ObjectNames :
        \E env \in DescribeEnvs(objectName) :
            \E r \in {handleGetObjectFields(config, authClient, sobjectsCache,
                                            objectName, env)} :
                /\ config' = r.cfg
                /\ authClient' = r.auth
                /\ sobjectsCache' = r.cache
                /\ calls' = r.calls
                /\ result' = r.result
                /\ lastOp' = "get_object_fields"
                /\ pre' = Session(config, authClient)
                /\ UNCHANGED stdio
                /\ args' = [op |-> "get_object_fields", objectName |-> objectName]
                /\ UNCHANGED pending

ToolAuthenticatePassword ==
    \E toolArgs \in AuthenticatePasswordArgs, env \in CacheConnectEnvs :
        \E r \in {handleAuthenticatePassword(config, authClient, sobjectsCache,
                                             toolArgs, env)} :
            /\ config' = r.cfg
            /\ authClient' = r.auth
            /\ sobjectsCache' = r.cache
            /\ calls' = r.calls
            /\ result' = r.result
            /\ lastOp' = "authenticate_password"
            /\ pre' = Session(config, authClient)
            /\ UNCHANGED stdio
            /\ args' = [op |-> "authenticate_password", toolArgs |-> toolArgs]
            /\ UNCHANGED pending

NextServer == Initialize \/ ToolGetObjectFields \/ ToolAuthenticatePassword

SpecServer == InitServer /\ [][NextServer]_vars

\* C19: an entry of the metadata cache, once there, is still there with the
\* same value after every step the process takes: tool calls for metadata,
\* connect at start-up, and re-authentication by authenticate_password.
C19_CacheEntryNeverEvicted ==
    [][ \A n \in DOMAIN sobjectsCache :
          /\ n \in DOMAIN sobjectsCache'
          /\ sobjectsCache'[n] = sobjectsCache[n] ]_vars

(* ------------------------------------------------------------------ *)
(* SpecRace: getObjectFields calls that overlap at the awaited request *)
(* ------------------------------------------------------------------ *)

\* Number of getObjectFields calls made on the client.
MaxCallers == 3

Callers == 1..MaxCallers

RaceNames == {"Account"}

RaceEnvs(objectName) ==
    [first : {Described(objectName, FieldsV1), Described(objectName, FieldsV2), Http500},
     renew : {Rejected}, retry : {Http500}]

\* The part of getObjectFields up to the awaited request: the cache is
\* looked up and, on a miss, the request is built and sent.
getObjectFieldsStart(cfg, cache, objectName) ==
    IF cacheHas(cache, objectName)
    THEN [pc |-> "done", objectName |-> objectName, sent |-> <<>>,
          result |-> Returned(cache[objectName])]
    ELSE IF notAuthenticated(cfg)
    THEN [pc |-> "done", objectName |-> objectName, sent |-> <<>>,
          result |-> Thrown(Error(<<"Not authenticated. Call connect() first.">>))]
    ELSE [pc |-> "awaiting", objectName |-> objectName,
          sent |-> <<DataCall("GET",
                              getApiUrl(cfg.instanceUrl, DescribeRequest(objectName).path),
                              cfg.accessToken, Undefined, Undefined, NoResponse)>>,
          result |-> Returned(<<>>)]

\* The part of getObjectFields from the answer to the awaited request on.
getObjectFieldsResume(cfg, auth, cache, call, env) ==
    The({ getObjectFieldsDone(cache, call.objectName, m) :
            m \in { IF env.first.kind = "resolved"
                    THEN [cfg |-> cfg, auth |-> auth, calls |-> <<call1>>,
                          result |-> Returned(env.first.payload)]
                    ELSE makeRequestCatch(cfg, auth, call1, env) :
                      call1 \in {[call.sent[1] EXCEPT !.resp = env.first]} } })

InitRace ==
    /\ config = EnvConfig
    /\ authClient = NoAuthClient
    /\ lastOp = "none"
    /\ calls = <<>>
    /\ result = Returned(Undefined)
    /\ pre = Session(config, authClient)
    /\ args = NoArgs
    /\ sobjectsCache = EmptyCache
    /\ pending = NoPending
    /\ stdio = NoOutput

RaceStart ==
    \E c \in Callers \ DOMAIN pending, objectName \in RaceNames :
        \E r \in {getObjectFieldsStart(config, sobjectsCache, objectName)} :
            /\ pending' = [k \in DOMAIN pending \cup {c} |->
                              IF k = c THEN r ELSE pending[k]]
            /\ calls' = <<>>
            /\ result' = r.result
            /\ lastOp' = "getObjectFields.start"
            /\ pre' = Session(config, authClient)
            /\ UNCHANGED stdio
            /\ args' = [op |-> "getObjectFields", objectName |-> objectName, caller |-> c]
            /\ UNCHANGED <<config, authClient, sobjectsCache>>

RaceResume ==
    \E c \in DOMAIN pending :
        /\ pending[c].pc = "awaiting"
        /\ \E env \in RaceEnvs(pending[c].objectName) :
             \E r \in {getObjectFieldsResume(config, authClient, sobjectsCache,
                                             pending[c], env)} :
                 /\ config' = r.cfg
                 /\ authClient' = r.auth
                 /\ sobjectsCache' = r.cache
                 /\ pending' = [pending EXCEPT ![c] = [pc |-> "done",
                                                       objectName |-> pending[c].objectName,
                                                       sent |-> r.calls,
                                                       result |-> r.result]]
                 /\ calls' = r.calls
                 /\ result' = r.result
                 /\ lastOp' = "getObjectFields.resume"
                 /\ pre' = Session(config, authClient)
                 /\ UNCHANGED stdio
                 /\ args' = [op |-> "getObjectFields",
                             objectName |-> pending[c].objectName, caller |-> c]

NextRace == RaceStart \/ RaceResume

SpecRace == InitRace /\ [][NextRace]_vars

\* The call of caller c has completed successfully.
Completed(c) ==
    c \in DOMAIN pending /\ pending[c].pc = "done" /\ pending[c].result.status = "returned"

\* C20: of the getObjectFields calls for one object type that completed
\* successfully, the overlapping first ones and every later one, all
\* returned the same field sequence, and it is the one the cache holds.
C20_ConcurrentFetchesConverge ==
    \A c1, c2 \in Callers :
        ( /\ Completed(c1) /\ Completed(c2)
          /\ pending[c1].objectName = pending[c2].objectName )
        => /\ pending[c1].result.value = pending[c2].result.value
           /\ sobjectsCache[pending[c1].objectName] = pending[c1].result.value

(* ------------------------------------------------------------------ *)
(* SpecPass: toolingExecute, apexExecute and restful                   *)
(* ------------------------------------------------------------------ *)

NotAuthenticatedError == Error(<<"Not authenticated. Call connect() first.">>)

\* const response = await axios(config); return response.data;
axiosOnce(cfg, auth, method, url, data, env) ==
    [cfg |-> cfg, auth |-> auth,
     calls |-> <<DataCall(method, url, cfg.accessToken, data, Undefined, env.first)>>,
     result |-> IF env.first.kind = "resolved"
                THEN Returned(env.first.payload)
                ELSE Thrown(AxiosError(env.first))]

\* `${instanceUrl}/services/data/v58.0/tooling/${action}`
toolingUrl(instanceUrl, action) ==
    instanceUrl \o <<"/", "services", "/", "data", "/", "v58.0", "/", "tooling", "/">>
        \o action

\* `${instanceUrl}/services/apexrest${cleanAction}`
apexUrl(instanceUrl, action) ==
    instanceUrl \o <<"/", "services", "/", "apexrest">> \o cleanPath(action)

toolingExecuteRetrying(cfg, auth, action, method, data, env) ==
    makeRequest(cfg, auth,
                [method |-> method, path |-> <<"/", "tooling", "/">> \o action,
                 data |-> data, params |-> Undefined], env)

toolingExecute(cfg, auth, action, method, data, env) ==
    IF ~Truthy(cfg.instanceUrl)
    THEN [cfg |-> cfg, auth |-> auth, calls |-> <<>>,
          result |-> Thrown(NotAuthenticatedError)]
    ELSE axiosOnce(cfg, auth, method, toolingUrl(cfg.instanceUrl, action), data, env)

apexExecute(cfg, auth, action, method, data, env) ==
    IF ~Truthy(cfg.instanceUrl)
    THEN [cfg |-> cfg, auth |-> auth, calls |-> <<>>,
          result |-> Thrown(NotAuthenticatedError)]
    ELSE axiosOnce(cfg, auth, method, apexUrl(cfg.instanceUrl, action), data, env)

\* return this.makeRequest(method, path, data, params)
restful(cfg, auth, path, method, params, data, env) ==
    makeRequest(cfg, auth,
                [method |-> method, path |-> path, data |-> data, params |-> params],
                env)

\* The auth object of a client that connected by the credential exchange.
HeldAuth ==
    [SalesforcePasswordAuth(<<"id1">>, <<"sec1">>)
        EXCEPT !.accessToken = PreToken, !.instanceUrl = PreUrl,
               !.refreshToken = RefreshTok]

PassConfigs ==
    [clientId : {<<"id1">>}, clientSecret : {<<"sec1">>},
     username : {<<"u@x.com">>}, password : {<<"p">>},
     securityToken : {<<"tok">>}, sandbox : {FALSE},
     accessToken : {Undefined, PreToken}, instanceUrl : {Undefined, PreUrl}]

PassActions == {<<"query">>, <<"/", "hello">>}
PassMethods == {"GET", "POST"}
PassData == {Undefined}

InitPass ==
    /\ config \in PassConfigs
    /\ authClient \in {NoAuthClient}
                        \cup (IF isAuthenticated(config) THEN {HeldAuth} ELSE {})
    /\ lastOp = "none"
    /\ calls = <<>>
    /\ result = Returned(Undefined)
    /\ pre = Session(config, authClient)
    /\ args = NoArgs
    /\ sobjectsCache = EmptyCache
    /\ pending = NoPending
    /\ stdio = NoOutput

ToolingExecute ==
    \E action \in PassActions, method \in PassMethods, data \in PassData,
       env \in RequestEnvs :
        \E r \in {toolingExecute(config, authClient, action, method, data, env)} :
            /\ config' = r.cfg
            /\ authClient' = r.auth
            /\ calls' = r.calls
            /\ result' = r.result
            /\ lastOp' = "toolingExecute"
            /\ pre' = Session(config, authClient)
            /\ args' = [op |-> "toolingExecute", action |-> action, method |-> method]
            /\ UNCHANGED <<sobjectsCache, pending, stdio>>

ApexExecute ==
    \E action \in PassActions, method \in PassMethods, data \in PassData,
       env \in RequestEnvs :
        \E r \in {apexExecute(config, authClient, action, method, data, env)} :
            /\ config' = r.cfg
            /\ authClient' = r.auth
            /\ calls' = r.calls
            /\ result' = r.result
            /\ lastOp' = "apexExecute"
            /\ pre' = Session(config, authClient)
            /\ args' = [op |-> "apexExecute", action |-> action, method |-> method]
            /\ UNCHANGED <<sobjectsCache, pending, stdio>>

Restful ==
    \E path \in PassActions, method \in PassMethods, data \in PassData,
       env \in RequestEnvs :
        \E r \in {restful(config, authClient, path, method, Undefined, data, env)} :
            /\ config' = r.cfg
            /\ authClient' = r.auth
            /\ calls' = r.calls
            /\ result' = r.result
            /\ lastOp' = "restful"
            /\ pre' = Session(config, authClient)
            /\ args' = [op |-> "restful", action |-> path, method |-> method]
            /\ UNCHANGED <<sobjectsCache, pending, stdio>>

NextPass == ToolingExecute \/ ApexExecute \/ Restful

SpecPass == InitPass /\ [][NextPass]_vars

\* The first request of the operation was answered 401.
FirstUnauthorized == Len(calls) >= 1 /\ calls[1].kind = "data" /\ Answered401(calls[1])

\* C22 as stated: toolingExecute, apexExecute and restful alike make one
\* request only when it is answered 401, start no renewal, and fail.
C22_PassThroughsBypassRetry ==
    (lastOp \in {"toolingExecute", "apexExecute", "restful"} /\ FirstUnauthorized)
    => /\ Len(calls) = 1
       /\ RenewCalls = <<>>
       /\ result.status = "thrown"

\* C22, amended: toolingExecute and apexExecute make one request only when
\* it is answered 401, start no renewal, and fail; restful goes through
\* makeRequest, so on a 401 with a refresh token held it makes one renewal
\* request and, when that succeeds, sends the request once more.
C22_OnlyToolingAndApexBypass ==
    /\ (lastOp \in {"toolingExecute", "apexExecute"} /\ FirstUnauthorized)
       => /\ Len(calls) = 1
          /\ RenewCalls = <<>>
          /\ result.status = "thrown"
          /\ SessionNow = pre
    /\ (lastOp = "restful" /\ FirstUnauthorized)
       => /\ Len(RenewCalls) = (IF Truthy(pre.refreshToken) THEN 1 ELSE 0)
          /\ Len(DataCalls)
               = (IF Len(RenewCalls) = 1 /\ Answered200(RenewCalls[1]) THEN 2 ELSE 1)
          /\ Len(DataCalls) = 2
             => /\ DataCalls[2].bearer = RenewCalls[1].resp.access_token
                /\ Answered200(DataCalls[2]) => result.status = "returned"

C22_Witness ==
    /\ lastOp = "toolingExecute"
    /\ Truthy(pre.refreshToken)
    /\ FirstUnauthorized
    /\ Len(calls) = 1
    /\ result.status = "thrown"

\* The messages of the declared error kinds.
DeclaredMessage(m) ==
    \/ m = <<"Not authenticated. Call connect() first.">>
    \/ m = <<"Network error: Unable to reach Salesforce API">>
    \/ (Len(m) >= 2 /\ m[1] = "Salesforce API Error: ")

\* C23: an operation that fails gives the caller an Error of a declared kind
\* (not authenticated, 'Salesforce API Error: ...', 'Network error: ...'),
\* never the error of the transport as it is; and an operation returns a
\* value only if its last downstream request was answered with success.
C23_FailuresAreTranslated ==
    lastOp \in {"toolingExecute", "apexExecute", "restful"} =>
        /\ result.status = "thrown"
           => /\ result.error.ctor = "Error"
              /\ DeclaredMessage(result.error.message)
        /\ result.status = "returned"
           => /\ Len(calls) >= 1
              /\ calls[Len(calls)].resp.kind = "resolved"

(* ------------------------------------------------------------------ *)
(* SpecRenew: makeRequest calls that overlap at their awaited requests *)
(* ------------------------------------------------------------------ *)

\* Number of makeRequest calls made on the client.
MaxInFlight == 2

InFlight == 1..MaxInFlight

\* The instance URL the identity endpoint names together with token n.
OrgUrl(n) == <<"https://org", ToString(n), ".my.salesforce.com">>

RenewRaceResponses ==
    {Granted(Rep("tok", n), OrgUrl(n), Undefined) : n \in 1..MaxToken} \cup {Rejected}

FirstRaceResponses == {OkResponse, Http401, Http500}
RetryRaceResponses == {OkResponse, Http401}

\* makeRequest up to the first await: the guard, the request built from the
\* session as it is now, and the request sent.
makeRequestStart(cfg, req) ==
    IF notAuthenticated(cfg)
    THEN [pc |-> "done", sent |-> <<>>, result |-> Thrown(NotAuthenticatedError)]
    ELSE [pc |-> "awaitFirst",
          sent |-> <<DataCall(req.method, getApiUrl(cfg.instanceUrl, req.path),
                              cfg.accessToken, req.data, req.params, NoResponse)>>,
          result |-> Returned(Undefined)]

\* From the answer of the first request to the next await: the result, or
\* the renewal request sent by tryTokenRefresh.
makeRequestFirstAnswer(auth, call, resp) ==
    The({ IF resp.kind = "resolved"
          THEN [pc |-> "done", sent |-> <<call1>>, result |-> Returned(resp.payload)]
          ELSE IF isUnauthorized(resp) /\ auth.present /\ Truthy(auth.refreshToken)
          THEN [pc |-> "awaitRenew", sent |-> <<call1>>, result |-> call.result]
          ELSE [pc |-> "done", sent |-> <<call1>>,
                result |-> Thrown(handleRequestError(resp))] :
            call1 \in {[call.sent[1] EXCEPT !.resp = resp]} })

makeRequestRenewAnswerTokenOnly(cfg, auth, call, resp) ==
    The({ [auth |-> [r.auth EXCEPT !.instanceUrl = auth.instanceUrl],
           call |-> IF r.ok
                    THEN [pc |-> "renewed", sent |-> call.sent \o r.calls,
                          result |-> call.result]
                    ELSE [pc |-> "done", sent |-> call.sent \o r.calls,
                          result |-> Thrown(handleRequestError(call.sent[1].resp))]] :
            r \in {refreshAccessToken(auth, cfg.sandbox, resp)} })

\* From the answer of the renewal request to the return of
\* refreshAccessToken: the auth object is written, the session not yet.
makeRequestRenewAnswer(cfg, auth, call, resp) ==
    The({ [auth |-> r.auth,
           call |-> IF r.ok
                    THEN [pc |-> "renewed", sent |-> call.sent \o r.calls,
                          result |-> call.result]
                    ELSE [pc |-> "done", sent |-> call.sent \o r.calls,
                          result |-> Thrown(handleRequestError(call.sent[1].resp))]] :
            r \in {refreshAccessToken(auth, cfg.sandbox, resp)} })

\* The retry as it is sent: the request of before under the token the
\* session holds now.
makeRequestSendRetry(cfg, call) ==
    [pc |-> "awaitRetry",
     sent |-> call.sent \o <<retryCall(call.sent[1], cfg, NoResponse)>>,
     result |-> call.result]

makeRequestRetryAnswer(call, resp) ==
    [pc |-> "done",
     sent |-> [call.sent EXCEPT ![Len(call.sent)].resp = resp],
     result |-> retryResult(resp)]

InitRenew ==
    /\ config = EnvConfig
    /\ authClient = HeldAuth
    /\ lastOp = "none"
    /\ calls = <<>>
    /\ result = Returned(Undefined)
    /\ pre = Session(config, authClient)
    /\ args = NoArgs
    /\ sobjectsCache = EmptyCache
    /\ pending = NoPending
    /\ stdio = NoOutput

\* The calls are numbered in the order they are made.
RenewStart ==
    \E c \in InFlight \ DOMAIN pending, req \in {ProbeRequest} :
        \E r \in {makeRequestStart(config, req)} :
            /\ \A k \in InFlight \ DOMAIN pending : c <= k
            /\ pending' = [k \in DOMAIN pending \cup {c} |->
                              IF k = c THEN r ELSE pending[k]]
            /\ lastOp' = "makeRequest.start"
            /\ result' = r.result
            /\ pre' = Session(config, authClient)
            /\ args' = [op |-> "makeRequest", caller |-> c]
            /\ UNCHANGED <<config, authClient, calls, sobjectsCache, stdio>>

RenewFirstAnswer ==
    \E c \in DOMAIN pending, resp \in FirstRaceResponses :
        /\ pending[c].pc = "awaitFirst"
        /\ \E r \in {makeRequestFirstAnswer(authClient, pending[c], resp)} :
             /\ pending' = [pending EXCEPT ![c] = r]
             /\ calls' = Append(calls, r.sent[1])
             /\ lastOp' = "makeRequest.firstAnswer"
             /\ result' = r.result
             /\ pre' = Session(config, authClient)
             /\ args' = [op |-> "makeRequest", caller |-> c]
             /\ UNCHANGED <<config, authClient, sobjectsCache, stdio>>

RenewAnswer ==
    \E c \in DOMAIN pending, resp \in RenewRaceResponses :
        /\ pending[c].pc = "awaitRenew"
        /\ \E r \in {makeRequestRenewAnswer(config, authClient, pending[c], resp)} :
             /\ authClient' = r.auth
             /\ pending' = [pending EXCEPT ![c] = r.call]
             /\ calls' = Append(calls, r.call.sent[Len(r.call.sent)])
             /\ lastOp' = "makeRequest.renewAnswer"
             /\ result' = r.call.result
             /\ pre' = Session(config, authClient)
             /\ args' = [op |-> "makeRequest", caller |-> c]
             /\ UNCHANGED <<config, sobjectsCache, stdio>>

\* tryTokenRefresh after its await: the session takes the pair of the auth
\* object.
RenewCopyTokens ==
    \E c \in DOMAIN pending :
        /\ pending[c].pc = "renewed"
        /\ config' = tokensFromAuth(config, authClient)
        /\ pending' = [pending EXCEPT ![c].pc = "copied"]
        /\ lastOp' = "makeRequest.copyTokens"
        /\ result' = pending[c].result
        /\ pre' = Session(config, authClient)
        /\ args' = [op |-> "makeRequest", caller |-> c]
        /\ UNCHANGED <<authClient, calls, sobjectsCache, stdio>>

RenewSendRetry ==
    \E c \in DOMAIN pending :
        /\ pending[c].pc = "copied"
        /\ pending' = [pending EXCEPT ![c] = makeRequestSendRetry(config, pending[c])]
        /\ lastOp' = "makeRequest.sendRetry"
        /\ result' = pending[c].result
        /\ pre' = Session(config, authClient)
        /\ args' = [op |-> "makeRequest", caller |-> c]
        /\ UNCHANGED <<config, authClient, calls, sobjectsCache, stdio>>

RenewRetryAnswer ==
    \E c \in DOMAIN pending, resp \in RetryRaceResponses :
        /\ pending[c].pc = "awaitRetry"
        /\ \E r \in {makeRequestRetryAnswer(pending[c], resp)} :
             /\ pending' = [pending EXCEPT ![c] = r]
             /\ calls' = Append(calls, r.sent[Len(r.sent)])
             /\ lastOp' = "makeRequest.retryAnswer"
             /\ result' = r.result
             /\ pre' = Session(config, authClient)
             /\ args' = [op |-> "makeRequest", caller |-> c]
             /\ UNCHANGED <<config, authClient, sobjectsCache, stdio>>

NextRenew ==
    \/ RenewStart
    \/ RenewFirstAnswer
    \/ RenewAnswer
    \/ RenewCopyTokens
    \/ RenewSendRetry
    \/ RenewRetryAnswer

SpecRenew == InitRenew /\ [][NextRenew]_vars

\* The requests of one call, by endpoint.
SentData(c) == SelectSeq(pending[c].sent, LAMBDA x : x.kind = "data")
SentRenew(c) == SelectSeq(pending[c].sent, LAMBDA x : x.kind = "renew")

\* Positions, in the order of arrival, of the renewal answers that granted a
\* token pair.
GrantedAt == {i \in 1..Len(calls) : calls[i].kind = "renew" /\ Answered200(calls[i])}

TokenPair(r) == <<r.access_token, r.instance_url>>

SessionPair == <<config.accessToken, config.instanceUrl>>

AllDone == \A c \in DOMAIN pending : pending[c].pc = "done"

\* C21: of overlapping makeRequest calls whose first request is answered
\* 401, each makes one renewal request of its own and, when that is granted,
\* one retry of its own; the accessToken and instanceUrl of the session are
\* at every moment the pair it started with or the pair of one granted
\* renewal, and once all calls have completed they are the pair of the
\* renewal answered last.
C21_LastRenewalWins ==
    /\ \A c \in DOMAIN pending :
          ( /\ pending[c].pc = "done"
            /\ Len(pending[c].sent) >= 1
            /\ Answered401(pending[c].sent[1]) )
          => /\ Len(SentRenew(c)) = 1
             /\ Len(SentData(c)) = (IF Answered200(SentRenew(c)[1]) THEN 2 ELSE 1)
             /\ Len(SentData(c)) = 2
                => /\ SentData(c)[2].url = SentData(c)[1].url
                   /\ pending[c].result.status
                        = (IF Answered200(SentData(c)[2]) THEN "returned" ELSE "thrown")
    /\ SessionPair \in {<<PreToken, PreUrl>>}
                          \cup {TokenPair(calls[i].resp) : i \in GrantedAt}
    /\ (AllDone /\ GrantedAt # {})
       => SessionPair
            = TokenPair(calls[CHOOSE i \in GrantedAt : \A j \in GrantedAt : j <= i].resp)

C21_Witness ==
    /\ DOMAIN pending = {1, 2}
    /\ AllDone
    /\ \A c \in {1, 2} :
          /\ Answered401(pending[c].sent[1])
          /\ Len(pending[c].sent) = 3
          /\ Answered200(pending[c].sent[2])
          /\ pending[c].result.status = "returned"
    /\ pending[1].sent[2].resp # pending[2].sent[2].resp
    /\ pending[1].sent[3].bearer = pending[2].sent[3].bearer

(* ------------------------------------------------------------------ *)
(* SpecUtil: getApiUrl, validateConfig, handleRequestError, the loggers *)
(* ------------------------------------------------------------------ *)

\* Number of slashes tried at the end of instanceUrl and at the start of path.
MaxSlashes == 2

\* Number of lines the loggers are asked to write.
MaxLog == 2

hasDirectTokensTokenOnly(cfg) == Truthy(cfg.accessToken)

\* const hasDirectTokens = config.accessToken && config.instanceUrl
hasDirectTokens(cfg) == Truthy(cfg.accessToken) /\ Truthy(cfg.instanceUrl)

validateConfigStrategyFirst(cfg) ==
    IF ~hasDirectTokens(cfg)
       /\ ~(Truthy(cfg.username) /\ Truthy(cfg.password))
    THEN Thrown(Error(<<"Either (SALESFORCE_ACCESS_TOKEN + SALESFORCE_INSTANCE_URL) or (SALESFORCE_USERNAME + SALESFORCE_PASSWORD) must be provided">>))
    ELSE IF ~Truthy(cfg.clientId) \/ ~Truthy(cfg.clientSecret)
    THEN Thrown(Error(<<"Client ID and Client Secret are required">>))
    ELSE Returned(Undefined)

validateConfig(cfg) ==
    IF ~Truthy(cfg.clientId) \/ ~Truthy(cfg.clientSecret)
    THEN Thrown(Error(<<"Client ID and Client Secret are required">>))
    ELSE IF ~hasDirectTokens(cfg)
            /\ ~(Truthy(cfg.username) /\ Truthy(cfg.password))
    THEN Thrown(Error(<<"Either (SALESFORCE_ACCESS_TOKEN + SALESFORCE_INSTANCE_URL) or (SALESFORCE_USERNAME + SALESFORCE_PASSWORD) must be provided">>))
    ELSE Returned(Undefined)

\* Configs as validateConfig may be handed them.
ValidateConfigs ==
    [clientId : {Undefined, <<>>, <<"id1">>}, clientSecret : {Undefined, <<"sec1">>},
     username : {Undefined, <<"u@x.com">>}, password : {Undefined, <<"p">>},
     securityToken : {Undefined}, sandbox : {FALSE},
     accessToken : {Undefined, <<>>, PreToken}, instanceUrl : {Undefined, PreUrl}]

\* The body of an error response: an object (with or without a message
\* field), a sequence (whose first element has a message field or not), or
\* neither.  message is errorData?.message, firstMessage errorData?.[0]?.message.
ErrorBodies ==
    {[shape |-> "object", message |-> m, firstMessage |-> Undefined] :
        m \in {Undefined, <<>>, <<"Bad field">>}}
    \cup {[shape |-> "sequence", message |-> Undefined, firstMessage |-> f] :
        f \in {Undefined, <<"Session expired or invalid">>}}
    \cup {[shape |-> "none", message |-> Undefined, firstMessage |-> Undefined]}

\* Failures of a request: a response outside 2xx, or no response.
ErrorResponses ==
    {[kind |-> "httpError", status |-> st, payload |-> Undefined, body |-> b] :
        st \in {400, 401, 404, 500}, b \in ErrorBodies}
    \cup {[NoResponse EXCEPT !.body = b] : b \in {[shape |-> "none", message |-> Undefined,
                                                   firstMessage |-> Undefined]}}

\* process.env.DEBUG === 'true' || process.env.NODE_ENV === 'development'
debugEnabled(env) == env.DEBUG = <<"true">> \/ env.NODE_ENV = <<"development">>

\* console.log(message) when debug is on
debugLog(env, out, message) ==
    IF debugEnabled(env) THEN [out EXCEPT !.stdout = Append(@, message)] ELSE out

\* console.error(...args) when debug is on
errorLog(env, out, message) ==
    IF debugEnabled(env) THEN [out EXCEPT !.stderr = Append(@, message)] ELSE out

ProcessEnvs ==
    [DEBUG : {Undefined, <<"true">>, <<"false">>},
     NODE_ENV : {Undefined, <<"development">>, <<"production">>}]

LogMessages == {<<"Attempting to refresh access token...">>}

UrlBases == {PreUrl, ServiceUrl}
UrlPaths == {<<"query">>, <<"sobjects", "/", "Account">>}

InitUtil ==
    /\ config = EnvConfig
    /\ authClient = NoAuthClient
    /\ lastOp = "none"
    /\ calls = <<>>
    /\ result = Returned(Undefined)
    /\ pre = Session(config, authClient)
    /\ args = NoArgs
    /\ sobjectsCache = EmptyCache
    /\ pending = NoPending
    /\ stdio = NoOutput

GetApiUrl ==
    \E base \in UrlBases, path \in UrlPaths, t \in 0..MaxSlashes, l \in 0..MaxSlashes :
        /\ result' = Returned(getApiUrl(base \o Rep("/", t), Rep("/", l) \o path))
        /\ lastOp' = "getApiUrl"
        /\ args' = [op |-> "getApiUrl", base |-> base, trailing |-> t,
                    leading |-> l, path |-> path]
        /\ UNCHANGED <<config, authClient, calls, pre, sobjectsCache, pending, stdio>>

ValidateConfig ==
    \E cfg \in ValidateConfigs :
        /\ result' = validateConfig(cfg)
        /\ lastOp' = "validateConfig"
        /\ args' = [op |-> "validateConfig", config |-> cfg]
        /\ UNCHANGED <<config, authClient, calls, pre, sobjectsCache, pending, stdio>>

HandleRequestError ==
    \E resp \in ErrorResponses :
        /\ result' = Returned(handleRequestError(resp))
        /\ lastOp' = "handleRequestError"
        /\ args' = [op |-> "handleRequestError", error |-> resp]
        /\ UNCHANGED <<config, authClient, calls, pre, sobjectsCache, pending, stdio>>

DebugLog ==
    \E env \in ProcessEnvs, message \in LogMessages :
        /\ Len(stdio.stdout) + Len(stdio.stderr) < MaxLog
        /\ stdio' = debugLog(env, stdio, message)
        /\ result' = Returned(Undefined)
        /\ lastOp' = "debugLog"
        /\ args' = [op |-> "debugLog", env |-> env, message |-> message]
        /\ UNCHANGED <<config, authClient, calls, pre, sobjectsCache, pending>>

ErrorLog ==
    \E env \in ProcessEnvs, message \in LogMessages :
        /\ Len(stdio.stdout) + Len(stdio.stderr) < MaxLog
        /\ stdio' = errorLog(env, stdio, message)
        /\ result' = Returned(Undefined)
        /\ lastOp' = "errorLog"
        /\ args' = [op |-> "errorLog", env |-> env, message |-> message]
        /\ UNCHANGED <<config, authClient, calls, pre, sobjectsCache, pending>>

NextUtil == GetApiUrl \/ ValidateConfig \/ HandleRequestError \/ DebugLog \/ ErrorLog

SpecUtil == InitUtil /\ [][NextUtil]_vars

\* C24: for a response outside 2xx the message is the message field of the
\* body when the body is an object that has one, else the message of the
\* first element when the body is a sequence whose first element has one,
\* else 'HTTP <status>'; a request without any response gives the error
\* 'Network error: Unable to reach Salesforce API'.
C24_ErrorMessageFallbacks ==
    lastOp = "handleRequestError" =>
        /\ result.value.ctor = "Error"
        /\ args.error.kind = "noResponse"
           => result.value.message = <<"Network error: Unable to reach Salesforce API">>
        /\ args.error.kind = "httpError"
           => result.value.message
                = <<"Salesforce API Error: ">>
                    \o (IF args.error.body.shape = "object"
                           /\ args.error.body.message # Undefined
                        THEN args.error.body.message
                        ELSE IF args.error.body.shape = "sequence"
                                /\ args.error.body.firstMessage # Undefined
                        THEN args.error.body.firstMessage
                        ELSE <<"HTTP ", ToString(args.error.status)>>)

C24_Witness ==
    /\ lastOp = "handleRequestError"
    /\ args.error.status = 401
    /\ args.error.body.shape = "sequence"
    /\ result.value.message = <<"Salesforce API Error: ", "Session expired or invalid">>

\* The URL with one slash at each join.
JoinedUrl ==
    args.base \o <<"/", "services", "/", "data", "/", "v58.0">> \o <<"/">> \o args.path

\* C25 as stated: whatever the number of slashes at the end of instanceUrl
\* and at the start of path, getApiUrl gives the URL with one slash at each
\* join.
C25_OneSlashAtEachJoin ==
    lastOp = "getApiUrl" => result.value = JoinedUrl

\* C25, amended: getApiUrl gives the URL with one slash at each join for an
\* instanceUrl with at most one trailing slash and a path with at most one
\* leading slash; it removes one trailing slash only and adds a leading
\* slash only, so every further slash of the inputs stays in the URL.
C25_OneSlashNormalised ==
    lastOp = "getApiUrl" =>
        /\ (args.trailing <= 1 /\ args.leading <= 1) => result.value = JoinedUrl
        /\ result.value
             = args.base
                 \o Rep("/", IF args.trailing = 0 THEN 0 ELSE args.trailing - 1)
                 \o <<"/", "services", "/", "data", "/", "v58.0">>
                 \o Rep("/", IF args.leading = 0 THEN 1 ELSE args.leading)
                 \o args.path

C25_Witness ==
    /\ lastOp = "getApiUrl"
    /\ args.trailing = 1
    /\ args.leading = 1
    /\ result.value = JoinedUrl

\* C27: validateConfig accepts a config exactly when clientId and
\* clientSecret are both non-empty and accessToken with instanceUrl, or
\* username with password, are both present; otherwise it throws, and with
\* clientId or clientSecret missing the error is 'Client ID and Client
\* Secret are required' whatever else is missing.
C27_ValidateConfig ==
    lastOp = "validateConfig" =>
        /\ result.status = "returned"
           <=> /\ args.config.clientId \notin {Undefined, <<>>}
               /\ args.config.clientSecret \notin {Undefined, <<>>}
               /\ \/ /\ args.config.accessToken \notin {Undefined, <<>>}
                     /\ args.config.instanceUrl \notin {Undefined, <<>>}
                  \/ /\ args.config.username \notin {Undefined, <<>>}
                     /\ args.config.password \notin {Undefined, <<>>}
        /\ (args.config.clientId \in {Undefined, <<>>}
              \/ args.config.clientSecret \in {Undefined, <<>>})
           => /\ result.status = "thrown"
              /\ result.error.message = <<"Client ID and Client Secret are required">>

C27_Witness ==
    /\ lastOp = "validateConfig"
    /\ args.config.clientId = <<>>
    /\ args.config.accessToken = Undefined
    /\ args.config.username = Undefined
    /\ result.status = "thrown"
    /\ result.error.message = <<"Client ID and Client Secret are required">>

\* C30: nothing the loggers write goes to stdout, with debug mode on or off.
C30_LogsNeverOnStdout == stdio.stdout = <<>>

(* ------------------------------------------------------------------ *)
(* search                                                             *)
(* ------------------------------------------------------------------ *)

\* C26: a search answered with status 200 returns the searchRecords of the
\* answer, and the empty sequence when the answer has no match or no
\* searchRecords field; it makes one GET of /search carrying the query.
C26_SearchReturnsRecordsOrEmpty ==
    (/\ lastOp = "search"
     /\ isAuthenticated(pre)
     /\ args.env.first.kind = "resolved")
    => /\ result.status = "returned"
       /\ result.value = (IF args.env.first.payload.hasSearchRecords
                          THEN args.env.first.payload.searchRecords
                          ELSE <<>>)
       /\ Len(calls) = 1
       /\ calls[1].method = "GET"
       /\ calls[1].params = <<<<"q", args.query>>>>

C26_Witness ==
    /\ lastOp = "search"
    /\ isAuthenticated(pre)
    /\ args.env.first.kind = "resolved"
    /\ ~args.env.first.payload.hasSearchRecords
    /\ result = Returned(<<>>)
    /\ Len(calls) = 1

(* ------------------------------------------------------------------ *)
(* SpecTools: the data tools of the server                            *)
(* ------------------------------------------------------------------ *)

RecordRequest(method, objectName, recordId, data) ==
    [method |-> method, path |-> <<"/", "sobjects", "/", objectName, "/", recordId>>,
     data |-> data, params |-> Undefined]

\* makeRequest('GET', `/sobjects/${objectName}/${recordId}`), no fields given
getRecord(cfg, auth, objectName, recordId, env) ==
    makeRequest(cfg, auth, RecordRequest("GET", objectName, recordId, Undefined), env)

\* makeRequest('POST', `/sobjects/${objectName}`, data)
createRecord(cfg, auth, objectName, data, env) ==
    makeRequest(cfg, auth,
                [method |-> "POST", path |-> <<"/", "sobjects", "/", objectName>>,
                 data |-> data, params |-> Undefined],
                env)

\* await makeRequest('PATCH', ...); return true
updateRecord(cfg, auth, objectName, recordId, data, env) ==
    The({ IF r.result.status = "returned" THEN [r EXCEPT !.result = Returned(TRUE)] ELSE r :
            r \in {makeRequest(cfg, auth,
                               RecordRequest("PATCH", objectName, recordId, data), env)} })

\* await makeRequest('DELETE', ...); return true
deleteRecord(cfg, auth, objectName, recordId, env) ==
    The({ IF r.result.status = "returned" THEN [r EXCEPT !.result = Returned(TRUE)] ELSE r :
            r \in {makeRequest(cfg, auth,
                               RecordRequest("DELETE", objectName, recordId, Undefined),
                               env)} })

\* A handler that stopped at ensureAuthenticated(): the dispatcher's catch
\* turns the error into text, the client was not touched.
Refused(cfg, auth) ==
    [cfg |-> cfg, auth |-> auth, calls |-> <<>>,
     result |-> ToolError(ensureAuthenticated(cfg).error)]

\* The answer of a tool whose client operation gave r: the value under the
\* tool's heading, or the dispatcher's error text.
Answered(r, text) ==
    [cfg |-> r.cfg, auth |-> r.auth, calls |-> r.calls,
     result |-> IF r.result.status = "returned"
                THEN ToolText(text, r.result.value)
                ELSE ToolError(r.result.error)]

\* `... Result: ${success ? 'Success' : 'Failed'}`
AnsweredSuccess(r, text) ==
    [cfg |-> r.cfg, auth |-> r.auth, calls |-> r.calls,
     result |-> IF r.result.status = "returned"
                THEN ToolText(text \o (IF r.result.value THEN <<"Success">> ELSE <<"Failed">>),
                              <<>>)
                ELSE ToolError(r.result.error)]

handleSoqlQuery(cfg, auth, soql, stream) ==
    IF ensureAuthenticated(cfg).status = "thrown" THEN Refused(cfg, auth)
    ELSE The({ Answered(r, <<"SOQL Query Results (JSON):">>) :
                 r \in {queryAll(cfg, auth, soql, stream)} })

handleSoslSearch(cfg, auth, sosl, env) ==
    IF ensureAuthenticated(cfg).status = "thrown" THEN Refused(cfg, auth)
    ELSE The({ Answered(r, <<"SOSL Search Results (JSON):">>) :
                 r \in {search(cfg, auth, sosl, env)} })

handleGetRecord(cfg, auth, objectName, recordId, env) ==
    IF ensureAuthenticated(cfg).status = "thrown" THEN Refused(cfg, auth)
    ELSE The({ Answered(r, <<objectName, " Record (JSON):">>) :
                 r \in {getRecord(cfg, auth, objectName, recordId, env)} })

handleCreateRecord(cfg, auth, objectName, data, env) ==
    IF ensureAuthenticated(cfg).status = "thrown" THEN Refused(cfg, auth)
    ELSE The({ Answered(r, <<"Create ", objectName, " Record Result (JSON):">>) :
                 r \in {createRecord(cfg, auth, objectName, data, env)} })

handleUpdateRecord(cfg, auth, objectName, recordId, data, env) ==
    IF ensureAuthenticated(cfg).status = "thrown" THEN Refused(cfg, auth)
    ELSE The({ AnsweredSuccess(r, <<"Update ", objectName, " Record Result: ">>) :
                 r \in {updateRecord(cfg, auth, objectName, recordId, data, env)} })

handleDeleteRecord(cfg, auth, objectName, recordId, env) ==
    IF ensureAuthenticated(cfg).status = "thrown" THEN Refused(cfg, auth)
    ELSE The({ AnsweredSuccess(r, <<"Delete ", objectName, " Record Result: ">>) :
                 r \in {deleteRecord(cfg, auth, objectName, recordId, env)} })

handleToolingExecute(cfg, auth, action, method, data, env) ==
    IF ensureAuthenticated(cfg).status = "thrown" THEN Refused(cfg, auth)
    ELSE The({ Answered(r, <<"Tooling Execute Result (JSON):">>) :
                 r \in {toolingExecute(cfg, auth, action, method, data, env)} })

handleApexExecute(cfg, auth, action, method, data, env) ==
    IF ensureAuthenticated(cfg).status = "thrown" THEN Refused(cfg, auth)
    ELSE The({ Answered(r, <<"Apex Execute Result (JSON):">>) :
                 r \in {apexExecute(cfg, auth, action, method, data, env)} })

handleRestful(cfg, auth, path, method, params, data, env) ==
    IF ensureAuthenticated(cfg).status = "thrown" THEN Refused(cfg, auth)
    ELSE The({ Answered(r, <<"RESTful API Call Result (JSON):">>) :
                 r \in {restful(cfg, auth, path, method, params, data, env)} })

\* The client the server builds from the environment: a token and a URL
\* that are set, empty or missing, and no auth object before connect().
ToolConfigs ==
    [clientId : {<<"id1">>}, clientSecret : {<<"sec1">>},
     username : {Undefined}, password : {Undefined},
     securityToken : {Undefined}, sandbox : {FALSE},
     accessToken : {Undefined, <<>>, PreToken}, instanceUrl : {Undefined, PreUrl}]

ToolEnvs == [first : {OkResponse, Http401, Http500}, renew : {Rejected}, retry : {Http500}]

\* A single page, a page with a successor, or a failure, then last pages.
ToolStreams ==
    { [k \in 1..MaxPages |->
         [first |-> IF k = 1 THEN p ELSE Page(k, TRUE, Undefined),
          renew |-> Rejected, retry |-> Http500]] :
        p \in {Page(1, TRUE, Undefined), Page(1, FALSE, Locator(1)), Http401} }

RecordIds == {"001A"}
RecordData == {<<"Name=Acme">>}

InitTools ==
    /\ config \in ToolConfigs
    /\ authClient = NoAuthClient
    /\ lastOp = "none"
    /\ calls = <<>>
    /\ result = Returned(Undefined)
    /\ pre = Session(config, authClient)
    /\ args = NoArgs
    /\ sobjectsCache = EmptyCache
    /\ pending = NoPending
    /\ stdio = NoOutput

RunSoqlQuery ==
    \E soql \in Queries, stream \in ToolStreams :
        \E r \in {handleSoqlQuery(config, authClient, soql, stream)} :
            /\ config' = r.cfg
            /\ authClient' = r.auth
            /\ calls' = r.calls
            /\ result' = r.result
            /\ lastOp' = "run_soql_query"
            /\ pre' = Session(config, authClient)
            /\ args' = [op |-> "run_soql_query", query |-> soql]
            /\ UNCHANGED <<sobjectsCache, pending, stdio>>

RunSoslSearch ==
    \E sosl \in Searches, env \in SearchEnvs :
        \E r \in {handleSoslSearch(config, authClient, sosl, env)} :
            /\ config' = r.cfg
            /\ authClient' = r.auth
            /\ calls' = r.calls
            /\ result' = r.result
            /\ lastOp' = "run_sosl_search"
            /\ pre' = Session(config, authClient)
            /\ args' = [op |-> "run_sosl_search", search |-> sosl]
            /\ UNCHANGED <<sobjectsCache, pending, stdio>>

GetObjectFieldsTool ==
    \E objectName \in ObjectNames :
        \E env \in DescribeEnvs(objectName) :
            \E r \in {handleGetObjectFields(config, authClient, sobjectsCache,
                                            objectName, env)} :
                /\ config' = r.cfg
                /\ authClient' = r.auth
                /\ sobjectsCache' = r.cache
                /\ calls' = r.calls
                /\ result' = r.result
                /\ lastOp' = "get_object_fields"
                /\ pre' = Session(config, authClient)
                /\ args' = [op |-> "get_object_fields", object_name |-> objectName]
                /\ UNCHANGED <<pending, stdio>>

GetRecordTool ==
    \E objectName \in ObjectNames, recordId \in RecordIds, env \in ToolEnvs :
        \E r \in {handleGetRecord(config, authClient, objectName, recordId, env)} :
            /\ config' = r.cfg
            /\ authClient' = r.auth
            /\ calls' = r.calls
            /\ result' = r.result
            /\ lastOp' = "get_record"
            /\ pre' = Session(config, authClient)
            /\ args' = [op |-> "get_record", object_name |-> objectName,
                        record_id |-> recordId]
            /\ UNCHANGED <<sobjectsCache, pending, stdio>>

CreateRecordTool ==
    \E objectName \in ObjectNames, data \in RecordData, env \in ToolEnvs :
        \E r \in {handleCreateRecord(config, authClient, objectName, data, env)} :
            /\ config' = r.cfg
            /\ authClient' = r.auth
            /\ calls' = r.calls
            /\ result' = r.result
            /\ lastOp' = "create_record"
            /\ pre' = Session(config, authClient)
            /\ args' = [op |-> "create_record", object_name |-> objectName,
                        data |-> data]
            /\ UNCHANGED <<sobjectsCache, pending, stdio>>

UpdateRecordTool ==
    \E objectName \in ObjectNames, recordId \in RecordIds, data \in RecordData,
       env \in ToolEnvs :
        \E r \in {handleUpdateRecord(config, authClient, objectName, recordId,
                                     data, env)} :
            /\ config' = r.cfg
            /\ authClient' = r.auth
            /\ calls' = r.calls
            /\ result' = r.result
            /\ lastOp' = "update_record"
            /\ pre' = Session(config, authClient)
            /\ args' = [op |-> "update_record", object_name |-> objectName,
                        record_id |-> recordId, data |-> data]
            /\ UNCHANGED <<sobjectsCache, pending, stdio>>

DeleteRecordTool ==
    \E objectName \in ObjectNames, recordId \in RecordIds, env \in ToolEnvs :
        \E r \in {handleDeleteRecord(config, authClient, objectName, recordId, env)} :
            /\ config' = r.cfg
            /\ authClient' = r.auth
            /\ calls' = r.calls
            /\ result' = r.result
            /\ lastOp' = "delete_record"
            /\ pre' = Session(config, authClient)
            /\ args' = [op |-> "delete_record", object_name |-> objectName,
                        record_id |-> recordId]
            /\ UNCHANGED <<sobjectsCache, pending, stdio>>

ToolingExecuteTool ==
    \E action \in PassActions, method \in PassMethods, data \in PassData,
       env \in ToolEnvs :
        \E r \in {handleToolingExecute(config, authClient, action, method, data, env)} :
            /\ config' = r.cfg
            /\ authClient' = r.auth
            /\ calls' = r.calls
            /\ result' = r.result
            /\ lastOp' = "tooling_execute"
            /\ pre' = Session(config, authClient)
            /\ args' = [op |-> "tooling_execute", action |-> action, method |-> method]
            /\ UNCHANGED <<sobjectsCache, pending, stdio>>

ApexExecuteTool ==
    \E action \in PassActions, method \in PassMethods, data \in PassData,
       env \in ToolEnvs :
        \E r \in {handleApexExecute(config, authClient, action, method, data, env)} :
            /\ config' = r.cfg
            /\ authClient' = r.auth
            /\ calls' = r.calls
            /\ result' = r.result
            /\ lastOp' = "apex_execute"
            /\ pre' = Session(config, authClient)
            /\ args' = [op |-> "apex_execute", action |-> action, method |-> method]
            /\ UNCHANGED <<sobjectsCache, pending, stdio>>

RestfulTool ==
    \E path \in PassActions, method \in PassMethods, data \in PassData,
       env \in ToolEnvs :
        \E r \in {handleRestful(config, authClient, path, method, Undefined, data, env)} :
            /\ config' = r.cfg
            /\ authClient' = r.auth
            /\ calls' = r.calls
            /\ result' = r.result
            /\ lastOp' = "restful"
            /\ pre' = Session(config, authClient)
            /\ args' = [op |-> "restful", path |-> path, method |-> method]
            /\ UNCHANGED <<sobjectsCache, pending, stdio>>

NextTools ==
    \/ RunSoqlQuery
    \/ RunSoslSearch
    \/ GetObjectFieldsTool
    \/ GetRecordTool
    \/ CreateRecordTool
    \/ UpdateRecordTool
    \/ DeleteRecordTool
    \/ ToolingExecuteTool
    \/ ApexExecuteTool
    \/ RestfulTool

SpecTools == InitTools /\ [][NextTools]_vars

DataTools ==
    {"run_soql_query", "run_sosl_search", "get_object_fields", "get_record",
     "create_record", "update_record", "delete_record", "tooling_execute",
     "apex_execute", "restful"}

\* C28: a data tool called while the client is not authenticated makes no
\* request and leaves the session and the cache as they were, and answers
\* with the text of the not-authenticated error.
C28_DataToolsGated ==
    (lastOp \in DataTools /\ ~isAuthenticated(pre))
    => /\ calls = <<>>
       /\ Session(config, authClient) = pre
       /\ sobjectsCache = EmptyCache
       /\ result = ToolText(<<"Error: ", "Not authenticated. Please authenticate first using the authenticate_password tool.">>, <<>>)

\* An instance URL without a token: the state in which toolingExecute and
\* apexExecute of the client would send a request if they were reached.
C28_Witness ==
    /\ lastOp = "tooling_execute"
    /\ pre.instanceUrl = PreUrl
    /\ pre.accessToken = Undefined
    /\ calls = <<>>
    /\ result = ToolText(<<"Error: ", "Not authenticated. Please authenticate first using the authenticate_password tool.">>, <<>>)

(* ------------------------------------------------------------------ *)
(* initialize                                                         *)
(* ------------------------------------------------------------------ *)

\* C29: initialize() completes without raising whether connect() gave
\* true, gave false or rejected, and after it the tools can be called.
C29_InitializeNeverRaises ==
    lastOp = "initialize" =>
        /\ args.connect \in {"true", "false", "rejects"}
        /\ result = Returned(Undefined)
        /\ ENABLED ToolGetObjectFields
        /\ ENABLED ToolAuthenticatePassword

\* After a connect() that rejected, authenticate_password can still succeed.
C29_Witness ==
    /\ lastOp = "initialize"
    /\ args.connect = "rejects"
    /\ result = Returned(Undefined)
    /\ ENABLED (/\ ToolAuthenticatePassword
                /\ result' = ToolText(<<"Password authentication successful!">>, <<>>))

(* ------------------------------------------------------------------ *)
(* queryAll: the done flag of the result                              *)
(* ------------------------------------------------------------------ *)

\* C31: every result queryAll returns reports done = true, also when the
\* draining stopped at a page with done = false and no continuation locator.
C31_ResultReportsDone ==
    (lastOp = "queryAll" /\ result.status = "returned") => result.value.done

(* ------------------------------------------------------------------ *)
(* connect() that gives false                                         *)
(* ------------------------------------------------------------------ *)

\* C32: after a connect() that gives false on a client on which nothing
\* succeeded before (its first operation), isAuthenticated() is false: a
\* token supplied from outside whose probe failed does not leave the client
\* reporting itself authenticated.
C32_FailedConnectNotAuthenticated ==
    [][(/\ lastOp = "none"
        /\ lastOp' = "connect"
        /\ result'.value = FALSE)
       => ~isAuthenticated(config')]_vars

(* ------------------------------------------------------------------ *)
(* authenticate_password                                              *)
(* ------------------------------------------------------------------ *)

\* C33: authenticate_password reports success only if, during the call, a
\* password exchange was sent to the identity endpoint and answered with
\* success; an access token of the environment alone never makes it report
\* success.
C33_SuccessOnlyByExchange ==
    (/\ lastOp = "authenticate_password"
     /\ result.value.text = <<"Password authentication successful!">>)
    => /\ Len(ExchangeCalls) >= 1
       /\ Answered200(ExchangeCalls[1])

\* C34: an authenticate_password call that fails leaves the session of the
\* server as it was: when the data tools passed the gate before the call
\* they pass it after it, with the same accessToken, instanceUrl and refresh
\* token.
C34_FailedAuthenticateKeepsSession ==
    (/\ lastOp = "authenticate_password"
     /\ result.value.text[1] = "Error: "
     /\ isAuthenticated(pre))
    => /\ isAuthenticated(config)
       /\ Session(config, authClient) = pre

(* ------------------------------------------------------------------ *)
(* SpecConnect: overlapping connect() calls on one client              *)
(* ------------------------------------------------------------------ *)

\* Number of connect() calls that may be in flight together.
MaxConnects == 2

Connectors == 1..MaxConnects

\* Each call that reaches tryUsernamePasswordAuth makes an auth object of
\* its own (obj) and stores it in this.authClient; current tells whether
\* this.authClient still is that object.  target is the call whose object a
\* renewal was started on, sent the request that is awaited.
ConnectCall(pc, sent, res) ==
    [pc |-> pc, sent |-> sent, result |-> res,
     obj |-> NoAuthClient, current |-> FALSE, target |-> 0]

\* tryAccessTokenAuth up to the await of the probe.
tryAccessTokenAuthStart(cfg) ==
    ConnectCall("awaitProbe",
                DataCall(ProbeRequest.method, getApiUrl(cfg.instanceUrl, ProbeRequest.path),
                         cfg.accessToken, ProbeRequest.data, ProbeRequest.params,
                         NoResponse),
                Returned(Undefined))

\* tryUsernamePasswordAuth up to the await of authenticate: a new auth
\* object is stored; without credentials connect ends in handleAuthFailure.
tryUsernamePasswordAuthStart(cfg) ==
    IF hasCredentials(cfg)
    THEN [ConnectCall("awaitExchange", NoResponse, Returned(Undefined))
            EXCEPT !.obj = SalesforcePasswordAuth(cfg.clientId, cfg.clientSecret),
                   !.current = TRUE]
    ELSE ConnectCall("done", NoResponse, Returned(handleAuthFailure))

\* The calls after call c has gone into tryUsernamePasswordAuth.
EnterExchange(c) ==
    [k \in DOMAIN pending \cup {c} |->
        IF k = c THEN tryUsernamePasswordAuthStart(config)
        ELSE IF hasCredentials(config) THEN [pending[k] EXCEPT !.current = FALSE]
        ELSE pending[k]]

\* this.authClient after call c has gone into tryUsernamePasswordAuth.
EnterExchangeAuth ==
    IF hasCredentials(config)
    THEN SalesforcePasswordAuth(config.clientId, config.clientSecret)
    ELSE authClient

\* The call whose object this.authClient is.
CurrentOwner == CHOOSE k \in DOMAIN pending : pending[k].current

ConnectProbeResponses == {OkResponse, Http401, Http500}
ConnectExchangeResponses == {Granted(Rep("tok", 1), ServiceUrl, RefreshTok), Rejected}
ConnectRenewResponses == {Granted(Rep("tok", 2), ServiceUrl, Undefined), Rejected}
ConnectRetryResponses == {OkResponse, Http500}

ConnectConfigs ==
    {EnvConfig, [EnvConfig EXCEPT !.accessToken = Undefined, !.instanceUrl = Undefined]}

InitConnect ==
    /\ config \in ConnectConfigs
    /\ authClient = NoAuthClient
    /\ lastOp = "none"
    /\ calls = <<>>
    /\ result = Returned(Undefined)
    /\ pre = Session(config, authClient)
    /\ args = NoArgs
    /\ sobjectsCache = EmptyCache
    /\ pending = NoPending
    /\ stdio = NoOutput

\* connect() up to its first await; the calls are numbered in the order
\* they are made.
ConnectStart ==
    \E c \in Connectors \ DOMAIN pending :
        /\ \A k \in Connectors \ DOMAIN pending : c <= k
        /\ IF isAuthenticated(config)
           THEN /\ pending' = [k \in DOMAIN pending \cup {c} |->
                                  IF k = c THEN tryAccessTokenAuthStart(config)
                                  ELSE pending[k]]
                /\ authClient' = authClient
           ELSE /\ pending' = EnterExchange(c)
                /\ authClient' = EnterExchangeAuth
        /\ lastOp' = "connect.start"
        /\ result' = pending'[c].result
        /\ pre' = Session(config, authClient)
        /\ args' = [op |-> "connect", caller |-> c]
        /\ UNCHANGED <<config, calls, sobjectsCache, stdio>>

\* The answer of the probe: true, or the renewal request of
\* tryTokenRefresh, or on to tryUsernamePasswordAuth.
ConnectProbeAnswer ==
    \E c \in DOMAIN pending, resp \in ConnectProbeResponses :
        /\ pending[c].pc = "awaitProbe"
        /\ IF resp.kind = "resolved"
           THEN /\ pending' = [pending EXCEPT ![c].pc = "done",
                                              ![c].result = Returned(TRUE)]
                /\ authClient' = authClient
           ELSE IF isUnauthorized(resp) /\ authClient.present
                   /\ Truthy(authClient.refreshToken)
           THEN /\ pending' = [pending EXCEPT ![c].pc = "awaitRenew",
                                              ![c].target = CurrentOwner]
                /\ authClient' = authClient
           ELSE /\ pending' = EnterExchange(c)
                /\ authClient' = EnterExchangeAuth
        /\ calls' = Append(calls, [pending[c].sent EXCEPT !.resp = resp])
        /\ lastOp' = "connect.probeAnswer"
        /\ result' = pending'[c].result
        /\ pre' = Session(config, authClient)
        /\ args' = [op |-> "connect", caller |-> c]
        /\ UNCHANGED <<config, sobjectsCache, stdio>>

\* The answer of the renewal: refreshAccessToken writes the object it was
\* called on, tryTokenRefresh copies from this.authClient and the probe is
\* sent again; a failed renewal leads on to tryUsernamePasswordAuth.
ConnectRenewAnswer ==
    \E c \in DOMAIN pending, resp \in ConnectRenewResponses :
        /\ pending[c].pc = "awaitRenew"
        /\ \E r \in {refreshAccessToken(pending[pending[c].target].obj,
                                        config.sandbox, resp)} :
             /\ calls' = calls \o r.calls
             /\ IF r.ok
                THEN /\ authClient' = IF pending[pending[c].target].current
                                      THEN r.auth ELSE authClient
                     /\ config' = tokensFromAuth(config, authClient')
                     /\ pending' = [k \in DOMAIN pending |->
                           IF k = c
                           THEN [(IF k = pending[c].target
                                  THEN [pending[k] EXCEPT !.obj = r.auth]
                                  ELSE pending[k])
                                   EXCEPT !.pc = "awaitRetry",
                                          !.sent = retryCall(pending[c].sent, config',
                                                             NoResponse)]
                           ELSE IF k = pending[c].target
                           THEN [pending[k] EXCEPT !.obj = r.auth]
                           ELSE pending[k]]
                ELSE /\ authClient' = EnterExchangeAuth
                     /\ config' = config
                     /\ pending' = EnterExchange(c)
        /\ lastOp' = "connect.renewAnswer"
        /\ result' = pending'[c].result
        /\ pre' = Session(config, authClient)
        /\ args' = [op |-> "connect", caller |-> c]
        /\ UNCHANGED <<sobjectsCache, stdio>>

\* The answer of the repeated probe.
ConnectRetryAnswer ==
    \E c \in DOMAIN pending, resp \in ConnectRetryResponses :
        /\ pending[c].pc = "awaitRetry"
        /\ IF resp.kind = "resolved"
           THEN /\ pending' = [pending EXCEPT ![c].pc = "done",
                                              ![c].result = Returned(TRUE)]
                /\ authClient' = authClient
           ELSE /\ pending' = EnterExchange(c)
                /\ authClient' = EnterExchangeAuth
        /\ calls' = Append(calls, [pending[c].sent EXCEPT !.resp = resp])
        /\ lastOp' = "connect.retryAnswer"
        /\ result' = pending'[c].result
        /\ pre' = Session(config, authClient)
        /\ args' = [op |-> "connect", caller |-> c]
        /\ UNCHANGED <<config, sobjectsCache, stdio>>

\* The answer of the password exchange: authenticate writes the object of
\* the call, tryUsernamePasswordAuth copies from this.authClient.
ConnectExchangeAnswer ==
    \E c \in DOMAIN pending, resp \in ConnectExchangeResponses :
        /\ pending[c].pc = "awaitExchange"
        /\ \E a \in {authenticate(pending[c].obj, config.username, config.password,
                                  securityTokenOrEmpty(config), config.sandbox, resp)} :
             /\ calls' = calls \o a.calls
             /\ authClient' = IF pending[c].current THEN a.auth ELSE authClient
             /\ config' = IF a.ok THEN tokensFromAuth(config, authClient') ELSE config
             /\ pending' = [pending EXCEPT ![c].obj = a.auth,
                                           ![c].pc = "done",
                                           ![c].result = Returned(a.ok \/ handleAuthFailure)]
        /\ lastOp' = "connect.exchangeAnswer"
        /\ result' = pending'[c].result
        /\ pre' = Session(config, authClient)
        /\ args' = [op |-> "connect", caller |-> c]
        /\ UNCHANGED <<sobjectsCache, stdio>>

NextConnect ==
    \/ ConnectStart
    \/ ConnectProbeAnswer
    \/ ConnectRenewAnswer
    \/ ConnectRetryAnswer
    \/ ConnectExchangeAnswer

SpecConnect == InitConnect /\ [][NextConnect]_vars

\* C35: whatever the interleaving of the calls, once accessToken and
\* instanceUrl are both set they stay set: isAuthenticated() never goes from
\* true to false.
C35_AuthenticatedNeverLost ==
    [][isAuthenticated(config) => isAuthenticated(config')]_vars

(* ------------------------------------------------------------------ *)
(* makeRequest: failures other than 401                               *)
(* ------------------------------------------------------------------ *)

\* C36: a makeRequest call whose first request fails with a status other
\* than 401, or without any response, makes that one request only, starts
\* no renewal, fails, and leaves accessToken, instanceUrl and refresh token
\* as they were.
C36_RenewalOnlyOn401 ==
    ( /\ lastOp = "makeRequest"
      /\ Len(calls) >= 1
      /\ calls[1].resp.kind # "resolved"
      /\ ~Answered401(calls[1]) )
    => /\ Len(calls) = 1
       /\ RenewCalls = <<>>
       /\ result.status = "thrown"
       /\ SessionNow = pre

C36_Witness ==
    /\ lastOp = "makeRequest"
    /\ Truthy(pre.refreshToken)
    /\ Len(calls) = 1
    /\ calls[1].resp = Http500
    /\ result.status = "thrown"
    /\ SessionNow = pre

(* ------------------------------------------------------------------ *)
(* toolingExecute, apexExecute: the session they need                 *)
(* ------------------------------------------------------------------ *)

\* C37: toolingExecute and apexExecute on a client whose accessToken or
\* instanceUrl is unset fail with the not-authenticated error and send no
\* request.
C37_PassThroughsNeedSession ==
    (lastOp \in {"toolingExecute", "apexExecute"} /\ ~isAuthenticated(pre))
    => /\ calls = <<>>
       /\ result.status = "thrown"
       /\ result.error.message = <<"Not authenticated. Call connect() first.">>

(* ------------------------------------------------------------------ *)
(* SpecDrain: queryAll on a client that can renew its token            *)
(* ------------------------------------------------------------------ *)

\* The token a renewal grants during a queryAll.
DrainGranted == Granted(Rep("tok", 1), PreUrl, Undefined)

\* What the service has ready for the k-th page request: the page, or a
\* 401 followed by a renewal and a repeated request, or a failure.
DrainEnvs(k) ==
    {[first |-> p, renew |-> Rejected, retry |-> Http500] :
        p \in {Page(k, FALSE, Locator(k)), Page(k, TRUE, Undefined), Http500}}
    \cup {[first |-> Http401, renew |-> DrainGranted, retry |-> q] :
            q \in {Page(k, FALSE, Locator(k)), Page(k, TRUE, Undefined), Http500}}
    \cup {[first |-> Http401, renew |-> Rejected, retry |-> Http500]}

\* An answer after which queryAll asks for the next page.
Continues(e) ==
    /\ (e.first.kind = "resolved" \/ (e.renew = DrainGranted /\ e.retry.kind = "resolved"))
    /\ moreToFetch(IF e.first.kind = "resolved" THEN e.first.payload ELSE e.retry.payload)

\* The answers to the page requests k, k + 1, ... of one call, up to the
\* one that ends it; what the service would answer to requests that are
\* never made is left out.
RECURSIVE DrainStreamsFrom(_)
DrainStreamsFrom(k) ==
    IF k = MaxPages THEN {<<e>> : e \in DrainEnvs(k)}
    ELSE {<<e>> : e \in {x \in DrainEnvs(k) : ~Continues(x)}}
         \cup {<<e>> \o t : e \in {x \in DrainEnvs(k) : Continues(x)},
                            t \in DrainStreamsFrom(k + 1)}

DrainStreams == DrainStreamsFrom(1)

DrainConfigs == {EnvConfig, [EnvConfig EXCEPT !.instanceUrl = PreUrl \o <<"/">>]}

InitDrain ==
    /\ config \in DrainConfigs
    /\ authClient = HeldAuth
    /\ lastOp = "none"
    /\ calls = <<>>
    /\ result = Returned(Undefined)
    /\ pre = Session(config, authClient)
    /\ args = NoArgs
    /\ sobjectsCache = EmptyCache
    /\ pending = NoPending
    /\ stdio = NoOutput

DrainQueryAll ==
    \E soql \in Queries, stream \in DrainStreams :
        \E r \in {queryAll(config, authClient, soql, stream)} :
            /\ config' = r.cfg
            /\ authClient' = r.auth
            /\ calls' = r.calls
            /\ result' = r.result
            /\ lastOp' = "queryAll"
            /\ pre' = Session(config, authClient)
            /\ args' = [op |-> "queryAll", query |-> soql, stream |-> stream]
            /\ UNCHANGED <<sobjectsCache, pending, stdio>>

NextDrain == DrainQueryAll

SpecDrain == InitDrain /\ [][NextDrain]_vars

\* The k-th page request is answered at once, or after one renewal and one
\* repeated request, or not at all.
Direct(k) == args.stream[k].first.kind = "resolved"
Recovered(k) ==
    /\ args.stream[k].first = Http401
    /\ args.stream[k].renew = DrainGranted
    /\ args.stream[k].retry.kind = "resolved"
Arrived(k) == Direct(k) \/ Recovered(k)
ArrivedPage(k) ==
    IF Direct(k) THEN args.stream[k].first.payload ELSE args.stream[k].retry.payload
ArrivedLast(k) == ArrivedPage(k).done \/ ~Truthy(ArrivedPage(k).nextRecordsUrl)

RECURSIVE RecoveredUpTo(_)
RecoveredUpTo(k) ==
    IF k = 0 THEN 0 ELSE RecoveredUpTo(k - 1) + (IF Recovered(k) THEN 1 ELSE 0)

RECURSIVE RecordsArrived(_)
RecordsArrived(n) ==
    IF n = 0 THEN <<>> ELSE RecordsArrived(n - 1) \o ArrivedPage(n).records

\* The URL of the k-th page request.
PageUrl(k) ==
    IF k = 1 THEN getApiUrl(pre.instanceUrl, <<"/", "query">>)
    ELSE cleanInstanceUrl(pre.instanceUrl) \o ArrivedPage(k - 1).nextRecordsUrl

\* C38: when every page request of a queryAll is answered, at once or after
\* one renewal and one repeated request, the call returns the records of
\* all pages in arrival order, each once; each page is requested once, or
\* twice in a row when it was recovered, and no earlier page is requested
\* again.  When a page request fails for good, queryAll fails and returns
\* nothing.
C38_DrainingSurvivesRenewal ==
    \A n \in 1..MaxPages :
        ( /\ lastOp = "queryAll"
          /\ n <= Len(args.stream)
          /\ \A k \in 1..(n - 1) : Arrived(k) /\ ~ArrivedLast(k) )
        => /\ (Arrived(n) /\ ArrivedLast(n))
              => /\ result.status = "returned"
                 /\ result.value.records = RecordsArrived(n)
                 /\ \A i, j \in 1..Len(result.value.records) :
                       result.value.records[i] = result.value.records[j] => i = j
                 /\ Len(DataCalls) = n + RecoveredUpTo(n)
                 /\ Len(RenewCalls) = RecoveredUpTo(n)
                 /\ \A k \in 1..n :
                       /\ DataCalls[k + RecoveredUpTo(k - 1)].url = PageUrl(k)
                       /\ Recovered(k)
                          => DataCalls[k + RecoveredUpTo(k)].url = PageUrl(k)
                 /\ \A k \in 2..n : PageUrl(k) # PageUrl(1)
           /\ ~Arrived(n)
              => /\ result.status = "thrown"
                 /\ Len(DataCalls) <= n + RecoveredUpTo(n - 1) + 1

C38_Witness ==
    /\ lastOp = "queryAll"
    /\ Direct(1) /\ ~ArrivedLast(1)
    /\ Recovered(2) /\ ~ArrivedLast(2)
    /\ Direct(3) /\ ArrivedLast(3)
    /\ Len(calls) = 5
    /\ calls[2].kind = "data" /\ Answered401(calls[2])
    /\ calls[3].kind = "renew"
    /\ calls[4].url = calls[2].url /\ calls[4].bearer # calls[2].bearer
    /\ result.status = "returned"
    /\ Len(result.value.records) = 6

(* ------------------------------------------------------------------ *)
(* getObjectFields: calls that fail                                   *)
(* ------------------------------------------------------------------ *)

\* C39: a getObjectFields(name) call that fails, because the client is not
\* authenticated, the request fails or the description has no fields,
\* leaves the cache as it was and without an entry for name; and a call for
\* a name that has no entry sends a request whenever the client is
\* authenticated, so the call after a failed one goes to the service again.
C39_FailedCallLeavesCache ==
    [][ \A n \in ObjectNames :
          GetObjectFieldsStep(n)
          => /\ result'.status = "thrown"
                => /\ sobjectsCache' = sobjectsCache
                   /\ n \notin DOMAIN sobjectsCache'
             /\ (n \notin DOMAIN sobjectsCache /\ isAuthenticated(config))
                => Len(calls') >= 1 ]_vars

\* A description without fields has just failed the call for Contact while
\* Account is cached.
C39_Witness ==
    /\ lastOp = "getObjectFields"
    /\ args.objectName = "Contact"
    /\ result.status = "thrown"
    /\ result.error.ctor = "TypeError"
    /\ Len(calls) = 1
    /\ DOMAIN sobjectsCache = {"Account"}

(* ------------------------------------------------------------------ *)
(* Validated configurations and connect                               *)
(* ------------------------------------------------------------------ *)

\* A client is constructed with any configuration validateConfig may be
\* handed; the configuration is validated and the client connects.
InitValidated ==
    /\ config \in ValidateConfigs
    /\ authClient = NoAuthClient
    /\ lastOp = "none"
    /\ calls = <<>>
    /\ result = Returned(Undefined)
    /\ pre = Session(config, authClient)
    /\ args = NoArgs
    /\ sobjectsCache = EmptyCache
    /\ pending = NoPending
    /\ stdio = NoOutput

ValidateOwnConfig ==
    /\ result' = validateConfig(config)
    /\ lastOp' = "validateConfig"
    /\ args' = [op |-> "validateConfig", config |-> config]
    /\ calls' = <<>>
    /\ pre' = Session(config, authClient)
    /\ UNCHANGED <<config, authClient, sobjectsCache, pending, stdio>>

NextValidated == ValidateOwnConfig \/ Connect

SpecValidated == InitValidated /\ [][NextValidated]_vars

\* C40: connect() on a configuration that validateConfig accepts sends at
\* least one request, and the first one is the token probe or the
\* credential exchange; it never returns through handleAuthFailure without
\* a network call.
C40_ValidatedConfigConnects ==
    [][ (lastOp' = "connect" /\ validateConfig(config).status = "returned")
        => /\ Len(calls') >= 1
           /\ \/ /\ calls'[1].kind = "data"
                 /\ calls'[1].method = "GET"
                 /\ hasDirectTokens(config)
              \/ /\ calls'[1].kind = "exchange"
                 /\ hasCredentials(config) ]_vars

\* A validated configuration with credentials only has connected: the
\* exchange was sent and refused, so the configuration is as it was.
C40_Witness ==
    /\ lastOp = "connect"
    /\ validateConfig(config).status = "returned"
    /\ ~hasDirectTokens(config)
    /\ Len(calls) = 1
    /\ calls[1].kind = "exchange"
    /\ result.value = FALSE

====
